---------------------------- MODULE Spec2Model ----------------------------
(***************************************************************************)
(* A model of the rush engine (ekourtakis/rush): fetch, checksum           *)
(* verification, archive extraction, atomic placement in the bin           *)
(* directory, the persisted State, uninstall, engine initialisation and    *)
(* the registry synchroniser.                                              *)
(***************************************************************************)
EXTENDS Integers, Sequences, FiniteSets, TLC

VARIABLES
    pc,         \* position of the engine process: "off", "idle" or a step of install_package
    state,      \* engine.state.packages, the in-memory State
    stateFile,  \* content of installed.json (NoFile when missing)
    binDir,     \* the bin directory: file name -> file, or NoFile
    op,         \* the operation that is running or ran last, with its arguments
    cur,        \* locals of the running install_package
    events,     \* events delivered to the callback by the running / last operation
    result,     \* what the last operation returned
    pre,        \* State, state file and bin directory when the operation was called
    writes,     \* filesystem writes performed by the running / last operation
    nOps,       \* operations called so far
    cache,      \* the registry cache directory (engine.registry_dir)
    source,     \* the local registry source directory
    vin,        \* arguments of a verify_checksum call
    vout,       \* its result
    proc        \* the command the process runs (main), what it printed, its exit status

vars == <<pc, state, stateFile, binDir, op, cur, events, result, pre, writes,
          nOps, cache, source, vin, vout, proc>>

engineVars == <<pc, state, stateFile, binDir, op, cur, events, result, pre, writes, nOps>>
syncVars   == <<cache, source>>
verifyVars == <<vin, vout>>
mainVars   == <<proc>>

-----------------------------------------------------------------------------
(* Bounds *)

MaxOps    == 2      \* operations called in one behaviour
DigestLen == 1      \* bytes of a digest (32 in SHA-256)

-----------------------------------------------------------------------------
(* Generic helpers *)

NoFile == [kind |-> "none"]
None   == "none"

\* Option<T> of a returned value: Nothing, or Some(x).
Nothing == <<>>
Some(x) == <<x>>

RECURSIVE SumSeq(_)
SumSeq(s) == IF s = <<>> THEN 0 ELSE Head(s) + SumSeq(Tail(s))

Last(s) == s[Len(s)]

Range(s) == {s[i] : i \in 1..Len(s)}

\* The values the operations return: Err carries the message of the anyhow::Error
\* as a sequence of its parts.
Err(msg) == [ok |-> FALSE, msg |-> msg]
Ok(val)  == [ok |-> TRUE, val |-> val]

-----------------------------------------------------------------------------
(* Checksum verification: src/core/util.rs *)

HexDigits == <<"0","1","2","3","4","5","6","7","8","9","a","b","c","d","e","f">>

\* hex::encode: two lower-case hexadecimal digits per byte, high nibble first.
RECURSIVE hex_encode(_)
hex_encode(bytes) ==
    IF bytes = <<>> THEN <<>>
    ELSE <<HexDigits[(Head(bytes) \div 16) + 1], HexDigits[(Head(bytes) % 16) + 1]>>
         \o hex_encode(Tail(bytes))

\* Sha256::new().update(content).finalize(): the digest of the sha2 crate, here a
\* fixed mixing function onto DigestLen bytes drawn from DigestTable.
DigestTable == <<171, 186, 10, 155, 160, 144>>

Sha256(content) ==
    [i \in 1..DigestLen |->
        DigestTable[((SumSeq(content) + 3 * Len(content) + 5 * i) % Len(DigestTable)) + 1]]

SecurityMsg == "Security check failed"

\* A mutant of verify_checksum: the digest is computed and then not compared.
verify_checksum_unchecked(content, expected_hash) ==
    Ok("unit")

\* ASCII case folding of one character of a digest string.
Lower(ch) ==
    CASE ch = "A" -> "a" [] ch = "B" -> "b" [] ch = "C" -> "c"
      [] ch = "D" -> "d" [] ch = "E" -> "e" [] ch = "F" -> "f"
      [] OTHER -> ch

\* A mutant of verify_checksum: the comparison ignores letter case.
verify_checksum_ignore_case(content, expected_hash) ==
    LET hash == hex_encode(Sha256(content)) IN
    IF hash # [i \in 1..Len(expected_hash) |-> Lower(expected_hash[i])]
    THEN Err(<<SecurityMsg, ": Checksum mismatch. Expected: ", expected_hash, ", Got: ", hash>>)
    ELSE Ok("unit")

verify_checksum(content, expected_hash) ==
    LET hash == hex_encode(Sha256(content)) IN
    IF hash # expected_hash
    THEN Err(<<SecurityMsg, ": Checksum mismatch. Expected: ", expected_hash, ", Got: ", hash>>)
    ELSE Ok("unit")

-----------------------------------------------------------------------------
(* Archives: the gzip+tar stream read by GzDecoder and tar::Archive.         *)
(* An archive is a byte sequence: per entry a header <<path, type, size>>    *)
(* followed by size data bytes; a 0 byte ends the archive. path indexes      *)
(* PathTable, type is the tar type flag (0 regular file, 5 directory).       *)

PathTable == << <<"a">>, <<"b">>, <<"pkg", "a">>, <<"a", "README">>, <<"a", "..">>, <<"a", "a">> >>

\* archive.entries() / Entries::next at byte position pos: the next header, the end
\* of the archive, or an error when the stream ends early or the header is invalid.
ReadHeader(content, pos) ==
    IF pos > Len(content) THEN [st |-> "corrupt"]
    ELSE IF content[pos] = 0 THEN [st |-> "eof"]
    ELSE IF pos + 2 > Len(content) \/ content[pos] \notin 1..Len(PathTable)
         THEN [st |-> "corrupt"]
    ELSE [st |-> "ok", path |-> PathTable[content[pos]], type |-> content[pos + 1],
          size |-> content[pos + 2], data |-> pos + 3, next |-> pos + 3 + content[pos + 2]]

\* Path::file_name: the final component, None when the path ends in "..".
file_name(path) ==
    IF path = <<>> \/ Last(path) = ".." THEN None ELSE Last(path)

\* A mutant of EntryMatches: any component of the path may equal the name.
EntryMatchesAnyComponent(path, target_bin_name) ==
    target_bin_name \in Range(path)

\* try_extract_binary's two guard clauses: the entry is the binary when its final
\* path component equals the target name exactly.
EntryMatches(path, target_bin_name) ==
    /\ file_name(path) # None
    /\ file_name(path) = target_bin_name

\* The bytes io::copy reads from an entry: the size bytes after its header, fewer
\* when the stream ends early (the copy then fails).
EntryBytes(content, hdr) ==
    [i \in 1..hdr.size |->
        IF hdr.data + i - 1 <= Len(content) THEN content[hdr.data + i - 1] ELSE -1]

EntryComplete(content, hdr) == hdr.data + hdr.size - 1 <= Len(content)

ArcGood    == <<1, 0, 2, 7, 8,  0>>
ArcNested  == <<4, 0, 1, 9,  3, 0, 2, 5, 6,  1, 0, 1, 4,  0>>
ArcOnlyB   == <<2, 0, 1, 3,  0>>
ArcCorrupt == <<5, 0, 0,  2, 0, 1, 3>>
ArcTrunc   == <<2, 0, 0,  1, 0, 2, 7>>
ArcDir     == <<1, 5, 0,  6, 0, 1, 6,  0>>

-----------------------------------------------------------------------------
(* The world outside the engine: package names, versions, binaries, URLs *)

Names    == {"p", "q"}
Versions == {"1.0.0", "2.0.0"}
Bins     == {"a", "b"}

\* Registry archives: the entries a gzip+tar registry snapshot decodes to, in archive
\* order. An entry of kind "corrupt" stands for bytes the decoder fails on.
RegEntry(path, kind, data) == [path |-> path, kind |-> kind, data |-> data]

RegPlain == << RegEntry(<<"packages", "t", "tool.toml">>, "file", "tool-1") >>
RegWrapped ==
    << RegEntry(<<"rush-main">>, "dir", ""),
       RegEntry(<<"rush-main", "README">>, "file", "readme"),
       RegEntry(<<"rush-main", "packages">>, "dir", ""),
       RegEntry(<<"rush-main", "packages", "f">>, "dir", ""),
       RegEntry(<<"rush-main", "packages", "f", "fzf.toml">>, "file", "fzf-1") >>
RegLookalike ==
    << RegEntry(<<"mypackages", "top.toml">>, "file", "top"),
       RegEntry(<<"packages", "t", "tool.toml">>, "file", "tool-2") >>
RegNoPackages == << RegEntry(<<"src", "main.rs">>, "file", "readme") >>
RegCorrupt ==
    << RegEntry(<<"packages", "f", "fzf.toml">>, "file", "fzf-2"),
       RegEntry(<<>>, "corrupt", "") >>
RegEscape ==
    << RegEntry(<<"packages", "t", "tool.toml">>, "file", "tool-1"),
       RegEntry(<<"packages", "..", "..", "installed.json">>, "file", "readme"),
       RegEntry(<<"rush-main", "packages", "..", "..", "..", "..", "bin", "a">>, "file", "readme"),
       RegEntry(<<"packages", "x", "..", "f", "fzf.toml">>, "file", "fzf-1") >>

\* What a URL serves: the bytes behind a file:// path or an http URL, or nothing.
FileUrl(path) == [scheme |-> "file://", path |-> path]
HttpUrl(path) == [scheme |-> "http", path |-> path]

Remote(url) ==
    CASE url.path = "good"    -> [found |-> TRUE, body |-> ArcGood, length_known |-> TRUE]
      [] url.path = "nested"  -> [found |-> TRUE, body |-> ArcNested, length_known |-> TRUE]
      [] url.path = "onlyb"   -> [found |-> TRUE, body |-> ArcOnlyB, length_known |-> TRUE]
      [] url.path = "corrupt" -> [found |-> TRUE, body |-> ArcCorrupt, length_known |-> FALSE]
      [] url.path = "trunc"   -> [found |-> TRUE, body |-> ArcTrunc, length_known |-> TRUE]
      [] url.path = "dir"     -> [found |-> TRUE, body |-> ArcDir, length_known |-> TRUE]
      [] url.path = "reg-plain"     ->
            [found |-> TRUE, body |-> RegPlain, length_known |-> TRUE]
      [] url.path = "reg-wrapped"   ->
            [found |-> TRUE, body |-> RegWrapped, length_known |-> TRUE]
      [] url.path = "reg-lookalike" ->
            [found |-> TRUE, body |-> RegLookalike, length_known |-> FALSE]
      [] url.path = "reg-nopkgs"    ->
            [found |-> TRUE, body |-> RegNoPackages, length_known |-> TRUE]
      [] url.path = "reg-corrupt"   ->
            [found |-> TRUE, body |-> RegCorrupt, length_known |-> TRUE]
      [] url.path = "reg-escape"    ->
            [found |-> TRUE, body |-> RegEscape, length_known |-> TRUE]
      [] OTHER                -> [found |-> FALSE, body |-> <<>>, length_known |-> FALSE]

Digest(path) == hex_encode(Sha256(Remote(FileUrl(path)).body))

\* TargetDefinition {url, bin, sha256} values a manifest may carry.
Target(url, bin, sha256) == [url |-> url, bin |-> bin, sha256 |-> sha256]

Targets ==
    { Target(FileUrl("good"), "a", Digest("good")),
      Target(FileUrl("good"), "a", <<"b", "a", "d">>),
      Target(HttpUrl("nested"), "a", Digest("nested")),
      Target(FileUrl("onlyb"), "a", Digest("onlyb")),
      Target(HttpUrl("corrupt"), "a", Digest("corrupt")),
      Target(FileUrl("trunc"), "a", Digest("trunc")),
      Target(FileUrl("dir"), "a", Digest("dir")),
      Target(FileUrl("missing"), "a", Digest("good")) }

NoTarget == Target(FileUrl(""), "", <<>>)

-----------------------------------------------------------------------------
(* Content fetcher: src/core/util.rs download_url *)

\* Bound: the bytes one read of the response body can return (8192 in the code).
BufLen == 4

\* The sizes of the successive reads of a body of n bytes: full buffers, or short
\* reads of one byte each.
RECURSIVE Reads(_, _)
Reads(n, short) ==
    IF n = 0 THEN <<>>
    ELSE LET k == IF short THEN 1 ELSE IF n < BufLen THEN n ELSE BufLen
         IN <<k>> \o Reads(n - k, short)

\* A mutant of download_url: Downloading is delivered and no Progress.
download_url_no_progress(url, short) ==
    LET r     == Remote(url)
        total == IF url.scheme = "file://" \/ r.length_known THEN Len(r.body) ELSE 0
    IN  IF ~r.found
        THEN [res |-> Err(<<"No such file or directory">>), events |-> <<>>]
        ELSE [res |-> Ok(r.body), events |-> << <<"Downloading", total>> >>]

\* download_url: the result and the events it delivers. short says how the
\* response body arrives.
download_url(url, short) ==
    LET r     == Remote(url)
        total == IF url.scheme = "file://" \/ r.length_known THEN Len(r.body) ELSE 0
        head  == << <<"Downloading", total>>, <<"Progress", 0, total>> >>
        rd    == Reads(Len(r.body), short)
    IN  IF url.scheme = "file://"
        THEN IF ~r.found
             THEN [res |-> Err(<<"No such file or directory">>), events |-> <<>>]
             ELSE [res |-> Ok(r.body), events |-> head \o << <<"Progress", total, total>> >>]
        ELSE IF ~r.found
             THEN [res |-> Err(<<"HTTP status client error">>), events |-> <<>>]
             ELSE [res |-> Ok(r.body),
                   events |-> head \o [i \in 1..Len(rd) |-> <<"Progress", rd[i], total>>]]

-----------------------------------------------------------------------------
(* State store: src/core.rs RushEngine::init and RushEngine::save *)

EmptyState == [n \in {} |-> 0]

InstalledPackage(version, binaries) == [version |-> version, binaries |-> binaries]

\* The text of a state file: a JSON document of State, or something else.
JsonDoc(doc)  == [kind |-> "json", doc |-> doc, what |-> ""]
Garbage(what) == [kind |-> "garbage", doc |-> <<>>, what |-> what]

GarbageKinds == {"malformed", "wrongshape", "nonutf8"}

\* serde_json::to_string_pretty(&state): one "name": {version, binaries} member per
\* package, in the iteration order of the HashMap, which is any order.
Serializations(st) ==
    { JsonDoc([i \in 1..Cardinality(DOMAIN st) |-> <<ord[i], st[ord[i]]>>]) :
        ord \in { o \in [1..Cardinality(DOMAIN st) -> DOMAIN st] : Range(o) = DOMAIN st } }

\* serde_json::from_str::<State>(&content): the members of the document in order, a
\* later member replacing an earlier one of the same name; an error for any other text.
from_str(text) ==
    IF text.kind # "json" THEN Err(<<"serde_json error">>)
    ELSE LET doc  == text.doc
             keys == {doc[i][1] : i \in 1..Len(doc)}
             last(k) == CHOOSE i \in 1..Len(doc) :
                           /\ doc[i][1] = k
                           /\ \A j \in 1..Len(doc) : doc[j][1] = k => j <= i
         IN Ok([k \in keys |-> doc[last(k)][2]])

\* RushEngine::init, lines 60-65: the State a new engine starts with.
\* fs::read_to_string fails on bytes that are not UTF-8, and the ? returns that error.
LoadState(file) ==
    IF file = NoFile THEN Ok(EmptyState)
    ELSE IF file.kind = "garbage" /\ file.what = "nonutf8"
         THEN Err(<<"stream did not contain valid UTF-8">>)
    ELSE LET parsed == from_str(file)
         IN IF parsed.ok THEN parsed ELSE Ok(EmptyState)

\* A mutant of SaveOutcomes: the file is written from the State as it was when the
\* operation was called.
SaveOutcomesStale(st, file) ==
    { [ok |-> TRUE, file |-> d] : d \in Serializations(pre.state) }

\* RushEngine::save: fs::write creates or truncates the file and writes the text; it
\* can fail before the file is touched or after it was truncated.
SaveOutcomes(st, file) ==
    { [ok |-> TRUE, file |-> d] : d \in Serializations(st) }
    \cup { [ok |-> FALSE, file |-> file], [ok |-> FALSE, file |-> Garbage("malformed")] }

-----------------------------------------------------------------------------
(* The bin directory *)

\* The names tempfile can give a temp file, in an order used to pick one.
TmpTable == <<".rush-tmp-1", ".rush-tmp-2">>
TmpNames == Range(TmpTable)
FileNames == Bins \cup TmpNames

File(data, exec) == [kind |-> "file", data |-> data, exec |-> exec]

EmptyDir == [f \in FileNames |-> NoFile]

-----------------------------------------------------------------------------
(* The engine process *)

InstallSteps == {"download", "verify", "extract", "scan", "tmp_create", "copy",
                 "persist", "record", "success"}

NoCur == [content |-> <<>>, pos |-> 0, tmp |-> "", n |-> 0]

Op(kind, name, version, target) ==
    [kind |-> kind, name |-> name, version |-> version, target |-> target]

Snapshot ==
    [state |-> state, stateFile |-> stateFile, binDir |-> binDir, cache |-> cache,
     source |-> source]

Pending == [ok |-> FALSE, msg |-> <<"pending">>]

\* main: the command, the names the upgrade loop has still to visit (installed_names),
\* whether an install_package it called is running, the names it called install_package
\* for, what it printed and the exit status of the process.
Proc(cmd, arg, todo, installing, fetched, out, exit) ==
    [cmd |-> cmd, arg |-> arg, todo |-> todo, installing |-> installing,
     fetched |-> fetched, out |-> out, exit |-> exit]

NoProc == Proc("none", "", <<>>, FALSE, <<>>, <<>>, "none")

\* The header of the entry the running install is looking at.
CurHdr == ReadHeader(cur.content, cur.pos)

\* The roots an engine is started on: a fresh one, and one on which package q was
\* installed before, from the archive that holds binary b.
FreshRoot == [stateFile |-> NoFile, binDir |-> EmptyDir]
UsedRoot ==
    [stateFile |-> JsonDoc(<< <<"q", InstalledPackage("1.0.0", <<"b">>)>> >>),
     binDir |-> [EmptyDir EXCEPT !["b"] = File(<<3>>, TRUE)]]

EngineInitState ==
    /\ pc = "off"
    /\ state = EmptyState
    /\ \E root \in {FreshRoot, UsedRoot} :
          /\ stateFile = root.stateFile
          /\ binDir = root.binDir
    /\ op = Op("none", "", "", NoTarget)
    /\ cur = NoCur
    /\ events = <<>>
    /\ result = Pending
    /\ pre = [state |-> EmptyState, stateFile |-> stateFile, binDir |-> binDir, cache |-> 0, source |-> 0]
    /\ writes = <<>>
    /\ nOps = 0
    /\ proc = NoProc

\* RushEngine::init: a new process builds its engine from the root.
EngineInit ==
    /\ pc = "off"
    /\ LET l == LoadState(stateFile)
       IN /\ result' = l
          /\ IF l.ok THEN pc' = "idle" /\ state' = l.val
                     ELSE pc' = "off" /\ state' = EmptyState
    /\ op' = Op("init", "", "", NoTarget)
    /\ pre' = Snapshot
    /\ events' = <<>>
    /\ writes' = <<>>
    /\ cur' = NoCur
    /\ UNCHANGED <<stateFile, binDir, nOps>>
    /\ UNCHANGED <<syncVars, verifyVars, mainVars>>

\* The process ends (main returns): the in-memory State is gone.
Exit ==
    /\ pc = "idle"
    /\ pc' = "off"
    /\ state' = EmptyState
    /\ UNCHANGED <<stateFile, binDir, op, cur, events, result, pre, writes, nOps>>
    /\ UNCHANGED <<syncVars, verifyVars, mainVars>>

\* The process is killed in the middle of an install (section 5: interruption is
\* process termination): nothing is cleaned up, a temp file stays where it is.
Crash ==
    /\ pc \in InstallSteps
    /\ pc' = "off"
    /\ state' = EmptyState
    /\ result' = Err(<<"killed">>)
    /\ UNCHANGED <<stateFile, binDir, op, cur, events, pre, writes, nOps>>
    /\ UNCHANGED <<syncVars, verifyVars, mainVars>>

\* Something else replaces or removes the state file between two runs.
TamperStateFile ==
    /\ pc = "off"
    /\ nOps < MaxOps
    /\ nOps' = nOps + 1
    /\ \E g \in GarbageKinds \cup {"missing"} :
          stateFile' = IF g = "missing" THEN NoFile ELSE Garbage(g)
    /\ op' = Op("tamper", "", "", NoTarget)
    /\ pre' = Snapshot
    /\ UNCHANGED <<pc, state, binDir, cur, events, result, writes>>
    /\ UNCHANGED <<syncVars, verifyVars, mainVars>>

-----------------------------------------------------------------------------
(* install: src/core/install.rs install_package and try_extract_binary *)

\* install_package is called with a name, a version and a target out of these.
CallInstall(names, versions, targets) ==
    /\ \E name \in names, version \in versions, target \in targets :
          op' = Op("install", name, version, target)
    /\ pc' = "download"
    /\ pre' = Snapshot
    /\ events' = <<>>
    /\ writes' = <<>>
    /\ result' = Pending
    /\ cur' = NoCur
    /\ nOps' = nOps + 1
    /\ UNCHANGED <<state, stateFile, binDir>>
    /\ UNCHANGED <<syncVars, verifyVars, mainVars>>

InstallCall ==
    /\ pc = "idle"
    /\ nOps < MaxOps
    /\ CallInstall(Names, Versions, Targets)

\* The install returns err to its caller.
Fail(err) ==
    /\ pc' = "idle"
    /\ result' = err

\* line 19: util::download_url
Download ==
    /\ pc = "download"
    /\ \E short \in BOOLEAN :
          LET d == download_url(op.target.url, short)
          IN /\ events' = events \o d.events
             /\ IF d.res.ok
                THEN /\ cur' = [cur EXCEPT !.content = d.res.val]
                     /\ pc' = "verify"
                     /\ UNCHANGED result
                ELSE Fail(d.res) /\ UNCHANGED cur
    /\ UNCHANGED <<state, stateFile, binDir, op, pre, writes, nOps>>
    /\ UNCHANGED <<syncVars, verifyVars, mainVars>>

\* lines 22-23: on_event(VerifyingChecksum); util::verify_checksum
Verify ==
    /\ pc = "verify"
    /\ events' = Append(events, <<"VerifyingChecksum">>)
    /\ LET v == verify_checksum(cur.content, op.target.sha256)
       IN IF v.ok THEN pc' = "extract" /\ UNCHANGED result
                  ELSE Fail(v)
    /\ UNCHANGED <<state, stateFile, binDir, op, cur, pre, writes, nOps>>
    /\ UNCHANGED <<syncVars, verifyVars, mainVars>>

\* lines 26-30: on_event(Extracting); the archive is opened at its first entry
BeginExtract ==
    /\ pc = "extract"
    /\ events' = Append(events, <<"Extracting">>)
    /\ cur' = [cur EXCEPT !.pos = 1]
    /\ pc' = "scan"
    /\ UNCHANGED <<state, stateFile, binDir, op, result, pre, writes, nOps>>
    /\ UNCHANGED <<syncVars, verifyVars, mainVars>>

\* lines 32-44 and try_extract_binary lines 72-83: the next entry of the archive
Scan ==
    /\ pc = "scan"
    /\ LET h == CurHdr
       IN CASE h.st = "corrupt" ->
                 Fail(Err(<<"failed to iterate over archive">>)) /\ UNCHANGED cur
            [] h.st = "eof" ->
                 Fail(Err(<<"Binary '", op.target.bin, "' not found in archive">>))
                 /\ UNCHANGED cur
            [] h.st = "ok" /\ ~EntryMatches(h.path, op.target.bin) ->
                 cur' = [cur EXCEPT !.pos = h.next] /\ UNCHANGED <<pc, result>>
            [] OTHER ->
                 pc' = "tmp_create" /\ UNCHANGED <<cur, result>>
    /\ UNCHANGED <<state, stateFile, binDir, op, events, pre, writes, nOps>>
    /\ UNCHANGED <<syncVars, verifyVars, mainVars>>

\* A mutant of TempPath: the entry is written straight to the destination.
TempPathIsDest(t) == op.target.bin

\* try_extract_binary lines 88-90: the file the entry is written to, a new file
\* named t in the bin directory.
TempPath(t) == t

\* lines 88-90: tempfile_in(bin_path) creates an empty file under a name that is free,
\* readable and writable by the owner only; it fails when it finds no free name.
\* The names are interchangeable: the first free one of TmpTable is taken.
TmpCreate ==
    /\ pc = "tmp_create"
    /\ IF \E t \in TmpNames : binDir[t] = NoFile
       THEN \E i \in 1..Len(TmpTable) : LET t == TmpTable[i] IN
               /\ binDir[t] = NoFile
               /\ \A j \in 1..(i - 1) : binDir[TmpTable[j]] # NoFile
               /\ binDir' = [binDir EXCEPT ![TempPath(t)] = File(<<>>, FALSE)]
               /\ cur' = [cur EXCEPT !.tmp = TempPath(t), !.n = 0]
               /\ writes' = Append(writes, "tmp_create")
               /\ pc' = "copy"
               /\ UNCHANGED result
       ELSE Fail(Err(<<"too many temporary files exist">>))
            /\ UNCHANGED <<binDir, cur, writes>>
    /\ UNCHANGED <<state, stateFile, op, events, pre, nOps>>
    /\ UNCHANGED <<syncVars, verifyVars, mainVars>>

\* A mutant of DropTemp: the temp file is left behind when the install fails.
KeepTemp(dir, t) == dir

\* Dropping the NamedTempFile (the ? of lines 92-102 returning early) deletes it.
DropTemp(dir, t) == [dir EXCEPT ![t] = NoFile]

\* line 92: std::io::copy(entry, &mut temp_file), a byte at a time. When the archive
\* ends inside the entry the copy fails, and dropping the NamedTempFile deletes it.
CopyByte ==
    /\ pc = "copy"
    /\ cur.n < CurHdr.size
    /\ IF CurHdr.data + cur.n <= Len(cur.content)
       THEN /\ binDir' = [binDir EXCEPT ![cur.tmp].data =
                              Append(@, cur.content[CurHdr.data + cur.n])]
            /\ cur' = [cur EXCEPT !.n = @ + 1]
            /\ writes' = Append(writes, "copy")
            /\ UNCHANGED <<pc, result>>
       ELSE /\ binDir' = DropTemp(binDir, cur.tmp)
            /\ Fail(Err(<<"unexpected end of file">>))
            /\ UNCHANGED <<cur, writes>>
    /\ UNCHANGED <<state, stateFile, op, events, pre, nOps>>
    /\ UNCHANGED <<syncVars, verifyVars, mainVars>>

\* lines 94-100: set_mode(0o755) on the temp file, once the copy is complete
Chmod ==
    /\ pc = "copy"
    /\ cur.n = CurHdr.size
    /\ binDir' = [binDir EXCEPT ![cur.tmp].exec = TRUE]
    /\ writes' = Append(writes, "chmod")
    /\ pc' = "persist"
    /\ UNCHANGED <<state, stateFile, op, cur, events, result, pre, nOps>>
    /\ UNCHANGED <<syncVars, verifyVars, mainVars>>

\* line 102: temp_file.persist(&dest) renames the temp file onto bin/<bin>
Persist ==
    /\ pc = "persist"
    /\ binDir' = [f \in FileNames |->
                    IF f = op.target.bin THEN binDir[cur.tmp]
                    ELSE IF f = cur.tmp THEN NoFile
                    ELSE binDir[f]]
    /\ writes' = Append(writes, "rename")
    /\ pc' = "record"
    /\ UNCHANGED <<state, stateFile, op, cur, events, result, pre, nOps>>
    /\ UNCHANGED <<syncVars, verifyVars, mainVars>>

\* lines 47-53: state.packages.insert(name, InstalledPackage {version, binaries: [bin]})
Recorded(st, name, version, bin) ==
    [n \in DOMAIN st \cup {name} |->
        IF n = name THEN InstalledPackage(version, <<bin>>) ELSE st[n]]

\* lines 47-54: the State entry is replaced and the State is saved
Record ==
    /\ pc = "record"
    /\ state' = Recorded(state, op.name, op.version, op.target.bin)
    /\ \E o \in SaveOutcomes(state', stateFile) :
          /\ stateFile' = o.file
          /\ writes' = Append(writes, "state_file")
          /\ IF o.ok THEN pc' = "success" /\ UNCHANGED result
                     ELSE Fail(Err(<<"failed to write state file">>))
    /\ UNCHANGED <<binDir, op, cur, events, pre, nOps>>
    /\ UNCHANGED <<syncVars, verifyVars, mainVars>>

\* lines 56-62: on_event(Success); Ok(InstallResult)
Succeed ==
    /\ pc = "success"
    /\ events' = Append(events, <<"Success">>)
    /\ result' = Ok([package_name |-> op.name, version |-> op.version,
                     path |-> op.target.bin])
    /\ pc' = "idle"
    /\ UNCHANGED <<state, stateFile, binDir, op, cur, pre, writes, nOps>>
    /\ UNCHANGED <<syncVars, verifyVars, mainVars>>

-----------------------------------------------------------------------------
(* uninstall: src/core/uninstall.rs uninstall_package *)

\* A mutant of RemoveBinaries: every registered binary is reported as removed,
\* whether or not its file existed.
RECURSIVE RemoveBinariesReportAll(_, _, _, _)
RemoveBinariesReportAll(binaries, i, failAt, acc) ==
    IF i > Len(binaries) THEN acc
    ELSE IF acc.dir[binaries[i]] # NoFile /\ i = failAt
         THEN [acc EXCEPT !.failed = TRUE]
    ELSE RemoveBinariesReportAll(binaries, i + 1, failAt,
             [acc EXCEPT !.dir[binaries[i]] = NoFile,
                         !.removed = Append(@, binaries[i])])

\* lines 13-19: for each registered binary, in order: if bin/<binary> exists, remove
\* it and push its name. fs::remove_file fails at the failAt-th binary (never, when
\* failAt = 0), and the ? returns the error at once.
RECURSIVE RemoveBinaries(_, _, _, _)
RemoveBinaries(binaries, i, failAt, acc) ==
    IF i > Len(binaries) THEN acc
    ELSE IF acc.dir[binaries[i]] # NoFile
         THEN IF i = failAt
              THEN [acc EXCEPT !.failed = TRUE]
              ELSE RemoveBinaries(binaries, i + 1, failAt,
                       [acc EXCEPT !.dir[binaries[i]] = NoFile,
                                   !.removed = Append(@, binaries[i])])
    ELSE RemoveBinaries(binaries, i + 1, failAt, acc)

\* A mutant of uninstall_package: a package that is not installed is an error.
uninstall_package_strict(st, dir, name, failAt) ==
    IF name \notin DOMAIN st
    THEN [state |-> st, dir |-> dir, save |-> FALSE, res |-> Err(<<"not installed">>)]
    ELSE LET r == RemoveBinaries(st[name].binaries, 1, failAt,
                                 [dir |-> dir, removed |-> <<>>, failed |-> FALSE])
         IN IF r.failed
            THEN [state |-> st, dir |-> r.dir, save |-> FALSE,
                  res |-> Err(<<"failed to remove file">>)]
            ELSE [state |-> [n \in DOMAIN st \ {name} |-> st[n]], dir |-> r.dir,
                  save |-> TRUE,
                  res |-> Ok(Some([package_name |-> name, binaries_removed |-> r.removed]))]

\* uninstall_package up to the call of save: the State and bin directory it leaves,
\* whether it goes on to save, and what it returns when the save succeeds.
uninstall_package(st, dir, name, failAt) ==
    IF name \notin DOMAIN st
    THEN [state |-> st, dir |-> dir, save |-> FALSE, res |-> Ok(Nothing)]
    ELSE LET r == RemoveBinaries(st[name].binaries, 1, failAt,
                                 [dir |-> dir, removed |-> <<>>, failed |-> FALSE])
         IN IF r.failed
            THEN [state |-> st, dir |-> r.dir, save |-> FALSE,
                  res |-> Err(<<"failed to remove file">>)]
            ELSE [state |-> [n \in DOMAIN st \ {name} |-> st[n]], dir |-> r.dir,
                  save |-> TRUE,
                  res |-> Ok(Some([package_name |-> name, binaries_removed |-> r.removed]))]

\* uninstall_package is called with one of these names.
CallUninstall(names) ==
    /\ nOps' = nOps + 1
    /\ \E name \in names :
        \E failAt \in 0..(IF name \in DOMAIN state THEN Len(state[name].binaries) ELSE 0) :
          LET u == uninstall_package(state, binDir, name, failAt)
          IN /\ op' = Op("uninstall", name, "", NoTarget)
             /\ binDir' = u.dir
             /\ state' = u.state
             /\ IF u.save
                THEN \E o \in SaveOutcomes(u.state, stateFile) :
                        /\ stateFile' = o.file
                        /\ result' = IF o.ok THEN u.res
                                     ELSE Err(<<"failed to write state file">>)
                ELSE /\ stateFile' = stateFile
                     /\ result' = u.res
    /\ pre' = Snapshot
    /\ events' = <<>>
    /\ writes' = <<>>
    /\ cur' = NoCur
    /\ UNCHANGED pc
    /\ UNCHANGED <<syncVars, verifyVars, mainVars>>

Uninstall ==
    /\ pc = "idle"
    /\ nOps < MaxOps
    /\ CallUninstall(Names)

\* The lists of binaries a test registers for a package.
BinLists == {<<"a", "b">>, <<"b", "a">>, <<"a", "a">>}

\* The fixture of test_uninstall_deletes_files: files are written into the bin
\* directory, a package is inserted into the State with its list of binaries, and
\* the State is saved.
SeedPackage ==
    /\ pc = "idle"
    /\ nOps < MaxOps
    /\ nOps' = nOps + 1
    /\ \E name \in Names, binaries \in BinLists :
        \E present \in SUBSET Range(binaries) :
          /\ binDir' = [f \in FileNames |->
                          IF f \in present THEN File(<<1>>, FALSE) ELSE binDir[f]]
          /\ state' = [n \in DOMAIN state \cup {name} |->
                          IF n = name THEN InstalledPackage("1.0.0", binaries)
                          ELSE state[n]]
          /\ op' = Op("seed", name, "1.0.0", NoTarget)
    /\ \E d \in Serializations(state') : stateFile' = d
    /\ result' = Ok("unit")
    /\ pre' = Snapshot
    /\ events' = <<>>
    /\ writes' = <<>>
    /\ cur' = NoCur
    /\ UNCHANGED pc
    /\ UNCHANGED <<syncVars, verifyVars, mainVars>>

\* src/core/clean.rs clean_trash: every file of the bin directory whose name starts
\* with ".rush-tmp-" is removed.
CleanTrash ==
    /\ pc = "idle"
    /\ nOps < MaxOps
    /\ nOps' = nOps + 1
    /\ binDir' = [f \in FileNames |-> IF f \in TmpNames THEN NoFile ELSE binDir[f]]
    /\ op' = Op("clean", "", "", NoTarget)
    /\ result' = Ok({f \in TmpNames : binDir[f] # NoFile})
    /\ pre' = Snapshot
    /\ events' = <<>>
    /\ writes' = <<>>
    /\ cur' = NoCur
    /\ UNCHANGED <<pc, state, stateFile>>
    /\ UNCHANGED <<syncVars, verifyVars, mainVars>>

-----------------------------------------------------------------------------
(* The specification of the engine *)

Init ==
    /\ EngineInitState
    /\ cache = 0
    /\ source = 0
    /\ vin = 0
    /\ vout = 0

EngineNext ==
    \/ EngineInit \/ Exit \/ Crash \/ TamperStateFile
    \/ InstallCall \/ Download \/ Verify \/ BeginExtract \/ Scan
    \/ TmpCreate \/ CopyByte \/ Chmod \/ Persist \/ Record \/ Succeed
    \/ Uninstall \/ SeedPackage \/ CleanTrash

Next == EngineNext

Spec == Init /\ [][Next]_vars

-----------------------------------------------------------------------------
(* Definitions the properties are stated with *)

\* The entries of an archive in archive order, up to its end or its first error.
RECURSIVE ArchiveEntries(_, _)
ArchiveEntries(content, pos) ==
    LET h == ReadHeader(content, pos)
    IN IF h.st = "ok" THEN <<h>> \o ArchiveEntries(content, h.next) ELSE <<>>

\* The indices of the entries whose final path component is bin.
NamedEntries(content, bin) ==
    LET es == ArchiveEntries(content, 1)
    IN {i \in 1..Len(es) : es[i].path # <<>> /\ Last(es[i].path) = bin}

HasNamedEntry(content, bin) == NamedEntries(content, bin) # {}

\* The first of them, in archive order.
FirstNamedEntry(content, bin) ==
    LET es == ArchiveEntries(content, 1)
    IN es[CHOOSE i \in NamedEntries(content, bin) :
                \A j \in NamedEntries(content, bin) : i <= j]

\* The file an install of bin from content is to leave at bin/<bin>.
InstalledFile(content, bin) ==
    LET e == FirstNamedEntry(content, bin)
    IN File([i \in 1..e.size |-> content[e.data + i - 1]], TRUE)

Count(seq, x) == Cardinality({i \in 1..Len(seq) : seq[i] = x})

InstallRunning == op.kind = "install" /\ pc \in InstallSteps
InstallReturned == op.kind = "install" /\ pc = "idle"
InstallOk == InstallReturned /\ result.ok

Untouched ==
    /\ binDir = pre.binDir
    /\ stateFile = pre.stateFile

DigestMatches(target) ==
    /\ Remote(target.url).found
    /\ target.sha256 = hex_encode(Sha256(Remote(target.url).body))

-----------------------------------------------------------------------------
(* Properties of install *)

\* C1: in every install, nothing is written to the filesystem (no temp file, no
\* rename, no state file) before the checksum of the fetched bytes has been verified
\* successfully; when the digest does not match, install returns the "Security check
\* failed" error and has written nothing.
C1_VerifyBeforeWrite ==
    op.kind = "install" =>
        /\ pc \in {"download", "verify"} => writes = <<>> /\ Untouched
        /\ (writes # <<>> \/ ~Untouched) =>
              /\ DigestMatches(op.target)
              /\ Count(events, <<"VerifyingChecksum">>) = 1
        /\ (pc = "idle" /\ Remote(op.target.url).found /\ ~DigestMatches(op.target)) =>
              /\ ~result.ok
              /\ result.msg[1] = SecurityMsg
              /\ writes = <<>>
              /\ Untouched
              /\ state = pre.state

\* C1 witness: an install over an installed binary was refused at the checksum.
C1_Witness ==
    /\ InstallReturned
    /\ ~result.ok
    /\ result.msg[1] = SecurityMsg
    /\ pre.binDir[op.target.bin] # NoFile
    /\ Count(events, <<"VerifyingChecksum">>) = 1

\* C2: at every point of an install of binary B, also after the process was killed
\* at any step, bin/B is either what it was before the install (or absent, if it
\* was) or the complete bytes of the new entry with the executable bit set.
C2_AtomicReplace ==
    op.kind = "install" =>
        \/ binDir[op.target.bin] = pre.binDir[op.target.bin]
        \/ /\ HasNamedEntry(cur.content, op.target.bin)
           /\ binDir[op.target.bin] = InstalledFile(cur.content, op.target.bin)

\* C2 witness: the process was killed while the entry was being copied, part of it
\* written, and the binary installed before is still at bin/B.
C2_Witness ==
    /\ op.kind = "install"
    /\ pc = "off"
    /\ cur.tmp # ""
    /\ binDir[cur.tmp] # NoFile
    /\ Len(binDir[cur.tmp].data) = 1
    /\ CurHdr.size = 2
    /\ pre.binDir[op.target.bin] # NoFile
    /\ binDir[op.target.bin] = pre.binDir[op.target.bin]

\* C3: when install fails at the fetch, at the checksum or at the extraction (a
\* corrupt archive, no entry named as the binary), the State, the state file and
\* every file of the bin directory are what they were before the call, and no temp
\* file of the install remains.
C3_FailedInstallLeavesNothing ==
    (InstallReturned /\ ~result.ok /\ Count(writes, "state_file") = 0) =>
        /\ state = pre.state
        /\ stateFile = pre.stateFile
        /\ binDir = pre.binDir
        /\ cur.tmp # "" => binDir[cur.tmp] = NoFile

\* C3 witness: the archive ended inside the matched entry, after the temp file was
\* created, on a root that had a package and its binary installed.
C3_Witness ==
    /\ InstallReturned
    /\ ~result.ok
    /\ result.msg = <<"unexpected end of file">>
    /\ cur.tmp # ""
    /\ Count(writes, "copy") = 1
    /\ pre.state # EmptyState
    /\ pre.binDir[op.target.bin] # NoFile

\* C4: after install returns Ok for binary B, bin/B holds exactly the bytes of the
\* first entry, in archive order, whose final path component is B, with the
\* executable bit set, and nothing else was written: one temp file, the bytes of
\* that one entry, and every other file of the bin directory as it was.
C4_FirstMatchInstalled ==
    InstallOk =>
        /\ HasNamedEntry(cur.content, op.target.bin)
        /\ binDir[op.target.bin] = InstalledFile(cur.content, op.target.bin)
        /\ binDir[op.target.bin].exec
        /\ \A f \in FileNames \ {op.target.bin} : binDir[f] = pre.binDir[f]
        /\ Count(writes, "tmp_create") = 1
        /\ Count(writes, "rename") = 1
        /\ Count(writes, "copy") = FirstNamedEntry(cur.content, op.target.bin).size
        /\ CurHdr = FirstNamedEntry(cur.content, op.target.bin)

\* C4 witness: an archive with an entry a/README before the first entry named a and
\* another entry named a after it was installed.
C4_Witness ==
    /\ InstallOk
    /\ op.target.url.path = "nested"
    /\ Cardinality(NamedEntries(cur.content, op.target.bin)) = 2
    /\ binDir[op.target.bin].data = <<5, 6>>

\* C6: after install(name, version, target) returns Ok, State maps name to exactly
\* {version, [target.bin]}, every other entry of State is as before, and the state
\* file is such that a new engine on the same root loads a State equal to this one.
C6_StateRecorded ==
    InstallOk =>
        /\ DOMAIN state = DOMAIN pre.state \cup {op.name}
        /\ state[op.name] = [version |-> op.version, binaries |-> <<op.target.bin>>]
        /\ \A n \in DOMAIN pre.state \ {op.name} : state[n] = pre.state[n]
        /\ LoadState(stateFile) = Ok(state)

\* C6 witness: the install replaced an earlier entry of the package, next to the
\* entry of another package.
C6_Witness ==
    /\ InstallOk
    /\ op.name \in DOMAIN pre.state
    /\ pre.state[op.name] # state[op.name]
    /\ DOMAIN state # {op.name}

-----------------------------------------------------------------------------
(* Properties of uninstall and of engine initialisation *)

UninstallReturned == op.kind = "uninstall" /\ pc = "idle"

\* The registered binaries that are files of the directory dir, each once, in
\* registration order.
RECURSIVE ExistingOf(_, _)
ExistingOf(binaries, dir) ==
    IF binaries = <<>> THEN <<>>
    ELSE LET rest == ExistingOf(SelectSeq(Tail(binaries), LAMBDA b : b # Head(binaries)), dir)
         IN IF dir[Head(binaries)] # NoFile THEN <<Head(binaries)>> \o rest ELSE rest

\* C7: uninstall(name) for a name that is not a key of State returns Ok(None) and
\* leaves the in-memory State, the state file and the bin directory unchanged.
C7_UninstallAbsent ==
    (UninstallReturned /\ op.name \notin DOMAIN pre.state) =>
        /\ result = Ok(Nothing)
        /\ state = pre.state
        /\ stateFile = pre.stateFile
        /\ binDir = pre.binDir

\* C7 witness: a package that is not installed was uninstalled on a root that has
\* another package and files in the bin directory.
C7_Witness ==
    /\ UninstallReturned
    /\ op.name \notin DOMAIN pre.state
    /\ pre.state # EmptyState
    /\ \E f \in FileNames : pre.binDir[f] # NoFile

\* C8: when uninstall(name) of an installed package returns Ok, it returns a result
\* (not None) whose binaries_removed are exactly the registered binaries that existed
\* in the bin directory, in registration order; none of the registered binaries is
\* left, no other file is touched, State has lost the entry of name and only that
\* one, and the state file holds the new State.
C8_UninstallPresent ==
    (UninstallReturned /\ op.name \in DOMAIN pre.state /\ result.ok) =>
        LET reg == pre.state[op.name].binaries
        IN /\ result.val # Nothing
           /\ result.val[1].package_name = op.name
           /\ result.val[1].binaries_removed = ExistingOf(reg, pre.binDir)
           /\ \A f \in FileNames :
                 binDir[f] = IF f \in Range(reg) THEN NoFile ELSE pre.binDir[f]
           /\ DOMAIN state = DOMAIN pre.state \ {op.name}
           /\ \A n \in DOMAIN state : state[n] = pre.state[n]
           /\ LoadState(stateFile) = Ok(state)

\* C8 witness: a package with two registered binaries, one of them missing, was
\* uninstalled next to another package, and one binary is reported removed.
C8_Witness ==
    /\ UninstallReturned
    /\ op.name \in DOMAIN pre.state
    /\ result.ok
    /\ Len(pre.state[op.name].binaries) = 2
    /\ \E b \in Range(pre.state[op.name].binaries) : pre.binDir[b] = NoFile
    /\ Len(result.val[1].binaries_removed) = 1
    /\ state # EmptyState

\* C9: engine initialisation on a root whose state file is missing, or is anything
\* but a valid State document (malformed JSON, JSON of another shape, bytes that are
\* not text), succeeds with an empty State.
C9_InitToleratesAnyStateFile ==
    (op.kind = "init" /\ pre.stateFile.kind \in {"none", "garbage"}) =>
        result = Ok(EmptyState)

\* C9, for the state files the code does tolerate: a missing file, malformed JSON
\* and JSON of another shape load as the empty State.
C9_InitToleratesText ==
    (op.kind = "init" /\ pre.stateFile.kind \in {"none", "garbage"}
        /\ pre.stateFile # Garbage("nonutf8")) =>
        result = Ok(EmptyState)

-----------------------------------------------------------------------------
(* verify_checksum as a function: the specification SpecVerify applies it to    *)
(* every content and expected string of a bounded set.                          *)

VContents == {<<>>, <<1>>, <<2>>, <<7, 8>>}
VAlphabet == {"0", "9", "a", "b", "A", "B"}
ExpectedStrings == UNION {[1..n -> VAlphabet] : n \in 0..(2 * DigestLen + 1)}

InitVerify ==
    /\ EngineInitState
    /\ stateFile = NoFile
    /\ cache = 0
    /\ source = 0
    /\ vin \in [content : VContents, expected : ExpectedStrings]
    /\ vout = Pending

VerifyCall ==
    /\ vout = Pending
    /\ vout' = verify_checksum(vin.content, vin.expected)
    /\ UNCHANGED <<engineVars, syncVars, vin, mainVars>>

NextVerify == VerifyCall

SpecVerify == InitVerify /\ [][NextVerify]_vars

\* expected is the lower-case hexadecimal text of the digest of content.
IsLowerHexDigest(expected, content) ==
    LET d == Sha256(content)
    IN /\ Len(expected) = 2 * Len(d)
       /\ \A i \in 1..Len(d) :
             /\ expected[2 * i - 1] = HexDigits[(d[i] \div 16) + 1]
             /\ expected[2 * i] = HexDigits[(d[i] % 16) + 1]

\* C5: verify_checksum(content, expected) returns Ok exactly when expected is the
\* lower-case hexadecimal SHA-256 digest of content; for every other string, the
\* digest in upper case included, it returns an error that begins "Security check
\* failed".
C5_VerifyIffDigest ==
    vout # Pending =>
        /\ vout.ok <=> IsLowerHexDigest(vin.expected, vin.content)
        /\ ~vout.ok => vout.msg[1] = SecurityMsg

\* C5 witness: the digest written in upper case was refused.
C5_Witness ==
    /\ vout # Pending
    /\ ~vout.ok
    /\ vout.msg[1] = SecurityMsg
    /\ vin.expected # hex_encode(Sha256(vin.content))
    /\ [i \in 1..Len(vin.expected) |-> Lower(vin.expected[i])] = hex_encode(Sha256(vin.content))

-----------------------------------------------------------------------------
(* Registry synchroniser: src/core/update.rs update_registry *)

\* A directory tree: path (a sequence of names) -> node. The directory itself is the
\* path <<>>; a tree without it is a directory that does not exist.
Dir         == [kind |-> "dir", data |-> ""]
RegFile(d)  == [kind |-> "file", data |-> d]
LinkFile(d) == [kind |-> "linkfile", data |-> d]    \* a symlink to a file holding d
LinkDir     == [kind |-> "linkdir", data |-> ""]    \* a symlink to a directory

MkTree(nodes) == [p \in {x[1] : x \in nodes} |-> (CHOOSE x \in nodes : x[1] = p)[2]]

NoTree    == MkTree({})
EmptyTree == MkTree({<< <<>>, Dir >>})

IsPrefix(a, b) == Len(a) <= Len(b) /\ SubSeq(b, 1, Len(a)) = a
Rel(p, prefix) == SubSeq(p, Len(prefix) + 1, Len(p))
Parent(p)      == SubSeq(p, 1, Len(p) - 1)

\* tree with the nodes of add written over it
Overlay(tree, add) ==
    [p \in DOMAIN tree \cup DOMAIN add |-> IF p \in DOMAIN add THEN add[p] ELSE tree[p]]

Pkgs == <<"packages">>

\* The local directories a registry source path can name.
SrcMissing == NoTree
SrcBare == MkTree({<< <<>>, Dir >>, << <<"README">>, RegFile("readme") >>})
SrcEmptyPkgs == MkTree({<< <<>>, Dir >>, << Pkgs, Dir >>})
SrcOne ==
    MkTree({<< <<>>, Dir >>, << Pkgs, Dir >>, << <<"packages", "t">>, Dir >>,
            << <<"packages", "t", "tool.toml">>, RegFile("tool-1") >>})
SrcTwo ==
    MkTree({<< <<>>, Dir >>, << <<"README">>, RegFile("readme") >>, << Pkgs, Dir >>,
            << <<"packages", "t">>, Dir >>,
            << <<"packages", "t", "tool.toml">>, RegFile("tool-2") >>,
            << <<"packages", "f">>, Dir >>,
            << <<"packages", "f", "fzf.toml">>, RegFile("fzf-1") >>})
SrcOdd ==
    MkTree({<< <<>>, Dir >>, << Pkgs, Dir >>, << <<"packages", "e">>, Dir >>,
            << <<"packages", "top.toml">>, RegFile("top") >>,
            << <<"packages", "x">>, Dir >>, << <<"packages", "x", "y">>, Dir >>,
            << <<"packages", "x", "y", "deep.toml">>, RegFile("deep") >>})
SrcFilePkgs == MkTree({<< <<>>, Dir >>, << Pkgs, RegFile("not a directory") >>})
SrcLinks ==
    MkTree({<< <<>>, Dir >>, << Pkgs, Dir >>, << <<"packages", "t">>, Dir >>,
            << <<"packages", "t", "tool.toml">>, LinkFile("tool-1") >>,
            << <<"packages", "f">>, Dir >>,
            << <<"packages", "f", "fzf.toml">>, RegFile("fzf-2") >>})
SrcBadLink ==
    MkTree({<< <<>>, Dir >>, << Pkgs, Dir >>, << <<"packages", "f">>, Dir >>,
            << <<"packages", "f", "fzf.toml">>, RegFile("fzf-1") >>,
            << <<"packages", "d">>, LinkDir >>})

\* manifests in the wrong shard, without the .toml extension, not text, not a file
SrcShards ==
    MkTree({<< <<>>, Dir >>, << Pkgs, Dir >>, << <<"packages", "f">>, Dir >>,
            << <<"packages", "f", "fzf.toml">>, RegFile("fzf-1") >>,
            << <<"packages", "f", "tool.toml">>, RegFile("tool-1") >>,
            << <<"packages", "f", "top.txt">>, RegFile("top") >>,
            << <<"packages", "f", "README">>, RegFile("readme") >>,
            << <<"packages", "b">>, Dir >>,
            << <<"packages", "b", "bin.toml">>, RegFile("<ff fe>") >>,
            << <<"packages", "d">>, Dir >>,
            << <<"packages", "d", "dir.toml">>, Dir >>})

Sources == {SrcMissing, SrcBare, SrcEmptyPkgs, SrcOne, SrcTwo, SrcOdd, SrcFilePkgs,
            SrcLinks, SrcBadLink, SrcShards}

\* A mutant of Wiped: the old cache is kept and the source copied over it.
KeptCache(c) == Overlay(c, EmptyTree)

\* lines 21-25: remove_dir_all(registry_dir), then create_dir_all(registry_dir)
Wiped(c) == EmptyTree

\* lines 42-52: what the walk writes for the source entries in done (paths under
\* packages/): a directory for a directory, a regular file with the content
\* fs::copy reads for anything else.
Mirrored(src, done) ==
    [p \in done |-> IF src[p].kind = "dir" THEN Dir ELSE RegFile(src[p].data)]

\* The entries of the walk on which the loop body fails: fs::copy of a symlink to a
\* directory, and fs::copy of packages itself, when it is a file, onto "packages/".
FailingEntries(src, walk) ==
    {p \in walk : src[p].kind = "linkdir" \/ (p = Pkgs /\ src[p].kind # "dir")}

\* The sets of entries the walk can have processed when it reaches e: WalkDir
\* yields a directory before its content and siblings in any order.
DoneBefore(src, walk, e) ==
    {done \in SUBSET (walk \ FailingEntries(src, walk)) :
        /\ \A p \in done : p # Pkgs => Parent(p) \in done
        /\ e # Pkgs => Parent(e) \in done
        /\ \A p \in done : ~IsPrefix(e, p)}

\* A mutant of update_registry: the cache is wiped only once packages/ was found.
update_registry_wipe_late(src, c) ==
    LET walk == {p \in DOMAIN src : IsPrefix(Pkgs, p)}
        bad  == FailingEntries(src, walk)
    IN  IF <<>> \notin DOMAIN src
        THEN {[cache |-> c, res |-> Err(<<"Local registry path not found: ">>)]}
        ELSE IF Pkgs \notin DOMAIN src
        THEN {[cache |-> c, res |-> Ok("local")]}
        ELSE IF bad = {}
        THEN {[cache |-> Overlay(Wiped(c), Mirrored(src, walk)), res |-> Ok("local")]}
        ELSE {[cache |-> Overlay(Wiped(c), Mirrored(src, done)),
               res |-> Err(<<"failed to copy">>)] :
                 done \in UNION {DoneBefore(src, walk, e) : e \in bad}}

\* A mutant of update_registry: a source path that does not exist is an empty source.
update_registry_missing_is_empty(src, c) ==
    LET walk == {p \in DOMAIN src : IsPrefix(Pkgs, p)}
        bad  == FailingEntries(src, walk)
    IN  IF Pkgs \notin DOMAIN src
        THEN {[cache |-> Wiped(c), res |-> Ok("local")]}
        ELSE IF bad = {}
        THEN {[cache |-> Overlay(Wiped(c), Mirrored(src, walk)), res |-> Ok("local")]}
        ELSE {[cache |-> Overlay(Wiped(c), Mirrored(src, done)),
               res |-> Err(<<"failed to copy">>)] :
                 done \in UNION {DoneBefore(src, walk, e) : e \in bad}}

\* update_registry for a source that is a local path: lines 21-56. The caches it can
\* leave and the result it returns.
update_registry(src, c) ==
    LET wiped == Wiped(c)
        walk  == {p \in DOMAIN src : IsPrefix(Pkgs, p)}
        bad   == FailingEntries(src, walk)
    IN  IF <<>> \notin DOMAIN src
        THEN {[cache |-> wiped, res |-> Err(<<"Local registry path not found: ">>)]}
        ELSE IF Pkgs \notin DOMAIN src
        THEN {[cache |-> wiped, res |-> Ok("local")]}
        ELSE IF bad = {}
        THEN {[cache |-> Overlay(wiped, Mirrored(src, walk)), res |-> Ok("local")]}
        ELSE {[cache |-> Overlay(wiped, Mirrored(src, done)),
               res |-> Err(<<"failed to copy">>)] :
                 done \in UNION {DoneBefore(src, walk, e) : e \in bad}}

UpdateRegistry ==
    /\ pc = "idle"
    /\ \E o \in update_registry(source, cache) :
          /\ cache' = o.cache
          /\ result' = o.res
    /\ op' = Op("sync", "", "", NoTarget)
    /\ pre' = Snapshot
    /\ events' = << <<"Fetching", "local">> >>
    /\ writes' = <<>>
    /\ cur' = NoCur
    /\ UNCHANGED <<pc, state, stateFile, binDir, nOps, source, verifyVars, mainVars>>

\* The source directory is edited between two syncs.
EditSource ==
    /\ pc = "idle"
    /\ \E s \in Sources : s # source /\ source' = s
    /\ op' = Op("edit", "", "", NoTarget)
    /\ pre' = Snapshot
    /\ UNCHANGED <<pc, state, stateFile, binDir, nOps, cache, cur, events, result,
                   writes, verifyVars, mainVars>>

-----------------------------------------------------------------------------
(* update_registry for a remote tarball: src/core/update.rs lines 58-88 *)

\* The registry sources that are URLs.
RegistryUrls ==
    {FileUrl("reg-plain"), HttpUrl("reg-wrapped"), HttpUrl("reg-lookalike"),
     FileUrl("reg-nopkgs"), FileUrl("reg-corrupt"), HttpUrl("reg-gone"),
     FileUrl("reg-absent")}

\* Registry sources that serve an archive whose entry paths have ".." components.
HostileUrls == {HttpUrl("reg-escape")}

\* The segment's text ends with "packages".
SegmentPrefixes == {"", "my"}
EndsWithPackages(seg) == \E before \in SegmentPrefixes : before \o "packages" = seg

\* line 74: path.to_string_lossy().find("packages/"). The text of the path is its
\* segments joined by "/" (a directory entry ends with "/"), so the first occurrence
\* is at the end of the first segment that ends with "packages" and has a "/" after it.
\* The segment it is in, or Nothing.
FindPackages(e) ==
    LET hits == {i \in 1..Len(e.path) :
                    EndsWithPackages(e.path[i]) /\ (i < Len(e.path) \/ e.kind = "dir")}
    IN  IF hits = {} THEN Nothing ELSE Some(CHOOSE i \in hits : \A j \in hits : i <= j)

\* lines 75-76: the components of registry_dir.join(&text[idx..])
RelativeDest(e, i) == <<"packages">> \o SubSeq(e.path, i + 1, Len(e.path))

\* RushEngine::init, lines 52-55: the paths of the engine under its root.
RegistryDir == <<".local", "share", "rush", "registry">>
StatePath   == <<".local", "share", "rush", "installed.json">>
BinPath     == <<".local", "bin">>

\* The file the operating system opens for base joined with the components comps:
\* a ".." component names the parent of the directory reached so far.
RECURSIVE Resolve(_, _)
Resolve(base, comps) ==
    IF comps = <<>> THEN base
    ELSE Resolve(IF Head(comps) = ".."
                 THEN (IF base = <<>> THEN base ELSE Parent(base))
                 ELSE Append(base, Head(comps)),
                 Tail(comps))

\* A mutant of Unpacked's destination: components that would leave registry_dir are
\* refused, as Entry::unpack_in does.
DestinationWithin(dest) ==
    LET abs == Resolve(RegistryDir, dest)
    IN  IF IsPrefix(RegistryDir, abs) THEN abs ELSE RegistryDir \o <<"refused">>

\* line 76 and entry.unpack(dest): the file written for registry_dir.join(relative).
Destination(dest) == Resolve(RegistryDir, dest)

\* lines 78-81: create_dir_all(parent), entry.unpack(dest). Nothing if a file is in
\* the way; else the cache it leaves and the path written, when that is not in the
\* cache. create_dir_all makes every directory the prefixes of the parent name.
Unpacked(tree, e, dest) ==
    LET abs     == Destination(dest)
        made    == {Resolve(RegistryDir, SubSeq(dest, 1, k)) : k \in 0..(Len(dest) - 1)}
        parents == {Rel(a, RegistryDir) : a \in {b \in made : IsPrefix(RegistryDir, b)}}
        node    == IF e.kind = "dir" THEN Dir ELSE RegFile(e.data)
        p       == Rel(abs, RegistryDir)
    IN  IF \E q \in parents : q \in DOMAIN tree /\ tree[q].kind # "dir"
        THEN Nothing
        ELSE IF ~IsPrefix(RegistryDir, abs)
        THEN Some([tree |-> Overlay(tree, [q \in parents |-> Dir]), at |-> abs])
        ELSE IF p \in DOMAIN tree /\ tree[p].kind # node.kind
        THEN Nothing
        ELSE Some([tree |-> Overlay(tree, [q \in parents \cup {p} |->
                                              IF q = p THEN node ELSE Dir]),
                   at |-> abs])

\* lines 70-83: the loop over the entries from entry i on. unpacked lists, in order,
\* the entry unpacked and the path it was written to.
RECURSIVE UnpackAll(_, _, _)
UnpackAll(tree, entries, i) ==
    IF i > Len(entries) THEN [cache |-> tree, res |-> Ok("remote"), unpacked |-> <<>>]
    ELSE IF entries[i].kind = "corrupt"
    THEN [cache |-> tree, res |-> Err(<<"failed to iterate over archive">>),
          unpacked |-> <<>>]
    ELSE LET idx == FindPackages(entries[i])
         IN  IF idx = Nothing THEN UnpackAll(tree, entries, i + 1)
             ELSE LET out == Unpacked(tree, entries[i], RelativeDest(entries[i], idx[1]))
                  IN  IF out = Nothing
                      THEN [cache |-> tree, res |-> Err(<<"failed to unpack">>),
                            unpacked |-> <<>>]
                      ELSE LET rest == UnpackAll(out[1].tree, entries, i + 1)
                           IN  [rest EXCEPT !.unpacked =
                                   << [entry |-> i, at |-> out[1].at] >> \o @]

\* A mutant of ForwardedProgress: every event of download_url is forwarded.
ForwardedAll(evs) == evs

\* lines 59-63: only the Progress events of download_url are forwarded.
ForwardedProgress(evs) == SelectSeq(evs, LAMBDA ev : ev[1] = "Progress")

\* A write to the filesystem, and the number of events delivered before it.
Wrote(what, data, at, after) == [what |-> what, data |-> data, at |-> at, after |-> after]

\* update_registry for a source that starts with "http" or "file://"
update_registry_remote(url, short, c) ==
    LET wiped   == Wiped(c)
        fetched == download_url(url, short)
        head    == << <<"Fetching", url.path>> >> \o ForwardedProgress(fetched.events)
        wipe    == << Wrote("wipe", "", RegistryDir, 1) >>
    IN  IF ~fetched.res.ok
        THEN [cache |-> wiped, res |-> fetched.res, events |-> head, writes |-> wipe]
        ELSE LET out == UnpackAll(wiped, fetched.res.val, 1)
                 evs == head \o << <<"Unpacking">> >>
             IN  [cache |-> out.cache, res |-> out.res, events |-> evs,
                  writes |-> wipe \o [k \in 1..Len(out.unpacked) |->
                                Wrote("unpack", fetched.res.val[out.unpacked[k].entry].data,
                                      out.unpacked[k].at, Len(evs))]]

\* The text of a state file that holds the bytes of an archive entry.
StateText(data) == Garbage("malformed")

\* The bytes the last of the writes ws to the path at has left there, if any.
LastWritten(ws, at) ==
    LET hits == {k \in 1..Len(ws) : ws[k].what = "unpack" /\ ws[k].at = at}
    IN  IF hits = {} THEN Nothing
        ELSE Some(ws[CHOOSE k \in hits : \A j \in hits : j <= k].data)

SyncFrom(urls) ==
    /\ pc = "idle"
    /\ \E url \in urls, short \in BOOLEAN :
          LET out == update_registry_remote(url, short, cache)
          IN  /\ cache' = out.cache
              /\ result' = out.res
              /\ events' = out.events
              /\ writes' = out.writes
              /\ stateFile' = IF LastWritten(out.writes, StatePath) = Nothing
                               THEN stateFile
                               ELSE StateText(LastWritten(out.writes, StatePath)[1])
              /\ binDir' = [f \in FileNames |->
                              IF LastWritten(out.writes, BinPath \o <<f>>) = Nothing
                              THEN binDir[f]
                              ELSE File(LastWritten(out.writes, BinPath \o <<f>>)[1], FALSE)]
              /\ op' = Op("sync_archive", "", "", Target(url, "", <<>>))
    /\ pre' = Snapshot
    /\ cur' = NoCur
    /\ UNCHANGED <<pc, state, nOps, source, verifyVars, mainVars>>

UpdateRegistryRemote == SyncFrom(RegistryUrls)

\* A sync from any of the registry sources, those with ".." entries included.
UpdateRegistryAnyArchive == SyncFrom(RegistryUrls \cup HostileUrls)

-----------------------------------------------------------------------------
(* Manifest store queries: src/core/query.rs *)

Triples == {"x86_64-linux", "aarch64-macos"}

\* BTreeMap<String, TargetDefinition> iterates its keys in ascending order.
TripleOrder == <<"aarch64-macos", "x86_64-linux">>

ManifestTarget(url, bin, sha256) == [url |-> url, bin |-> bin, sha256 |-> sha256]

PackageManifest(version, description, targets) ==
    [version |-> version, description |-> description, targets |-> targets]

NoTargets == [t \in {} |-> ManifestTarget("", "", "")]

\* The values the fields of a TargetDefinition take in the registry: a release
\* asset (its URL and the digest of what it serves) and a binary name.
Assets   == {<<"http://a.tar.gz", "hash1">>, <<"http://b.tar.gz", "hash2">>}
BinNames == {"tool", "fzf", "tl"}

LinuxT1 == ManifestTarget("http://a.tar.gz", "tool", "hash1")
LinuxT2 == ManifestTarget("http://b.tar.gz", "tl", "hash2")
MacT1   == ManifestTarget("http://b.tar.gz", "tool", "hash2")

\* toml::to_string_pretty(&manifest): version, the description when it is Some, then
\* one [targets.<triple>] table per target in key order.
TargetText(triple, t) ==
    "[targets." \o triple \o "] url=" \o t.url \o " bin=" \o t.bin \o " sha256=" \o t.sha256
        \o "; "

RECURSIVE TargetsText(_, _)
TargetsText(targets, i) ==
    IF i > Len(TripleOrder) THEN ""
    ELSE (IF TripleOrder[i] \in DOMAIN targets
          THEN TargetText(TripleOrder[i], targets[TripleOrder[i]]) ELSE "")
         \o TargetsText(targets, i + 1)

to_string_pretty(m) ==
    "version=" \o m.version \o "; "
        \o (IF m.description = Nothing THEN "" ELSE "description=" \o m.description[1] \o "; ")
        \o (IF DOMAIN m.targets = {} THEN "[targets]; " ELSE TargetsText(m.targets, 1))

\* Manifest files written by hand: the same data in another layout, with comments or
\* with keys PackageManifest does not have.
HandWritten ==
    [text \in {"tool-1", "tool-2", "fzf-1", "fzf-2", "top", "deep"} |->
        CASE text = "tool-1" ->
                PackageManifest("1.0.0", Some("a tool"), [t \in {"x86_64-linux"} |-> LinuxT1])
          [] text = "tool-2" ->
                PackageManifest("2.0.0", Some("a tool"),
                    [t \in Triples |-> IF t = "x86_64-linux" THEN LinuxT2 ELSE MacT1])
          [] text = "fzf-1" ->
                PackageManifest("1.0.0", Nothing, [t \in {"aarch64-macos"} |-> MacT1])
          [] text = "fzf-2" ->
                PackageManifest("2.0.0", Nothing, [t \in {"aarch64-macos"} |-> MacT1])
          [] text = "top" ->
                PackageManifest("1.0.0", Nothing, [t \in {"x86_64-linux"} |-> LinuxT1])
          [] OTHER ->
                PackageManifest("2.0.0", Nothing, [t \in {"x86_64-linux"} |-> LinuxT2])]

\* File contents that are not UTF-8 text.
NonUtf8 == {"<ff fe>"}

\* The manifests the written files of the model can hold, and the text of each.
ManifestTargets == {ManifestTarget(a[1], b, a[2]) : a \in Assets, b \in BinNames}
TargetMaps == UNION {[ts -> ManifestTargets] : ts \in SUBSET Triples}
Manifests ==
    {PackageManifest(v, d, ts) :
        v \in Versions, d \in {Nothing, Some("a tool")}, ts \in TargetMaps}
ManifestOfText ==
    LET text == [m \in Manifests |-> to_string_pretty(m)]
    IN  [t \in {text[m] : m \in Manifests} |-> CHOOSE m \in Manifests : text[m] = t]

\* The manifests of a published registry, by the text of the file. Their targets
\* name archives of Remote: tool and top install a binary of the same name, the
\* archive of ghost is missing, the digest of bin is not that of its archive, and
\* deep and the second version of fzf have a target for another machine only.
OneTarget(triple, t) == [k \in {triple} |-> t]

Published ==
    [text \in {"tool@1", "tool@2", "fzf@1", "fzf@2", "top@1", "ghost@1", "bin@1", "deep@1"} |->
        CASE text = "tool@1" ->
                PackageManifest("1.0.0", Nothing,
                    OneTarget("x86_64-linux", Target(FileUrl("good"), "a", Digest("good"))))
          [] text = "tool@2" ->
                PackageManifest("2.0.0", Nothing,
                    OneTarget("x86_64-linux", Target(HttpUrl("nested"), "a", Digest("nested"))))
          [] text = "fzf@1" ->
                PackageManifest("1.0.0", Nothing,
                    OneTarget("x86_64-linux", Target(FileUrl("onlyb"), "b", Digest("onlyb"))))
          [] text = "fzf@2" ->
                PackageManifest("2.0.0", Nothing,
                    OneTarget("aarch64-macos", Target(FileUrl("onlyb"), "b", Digest("onlyb"))))
          [] text = "top@1" ->
                PackageManifest("1.0.0", Nothing,
                    OneTarget("x86_64-linux", Target(HttpUrl("nested"), "a", Digest("nested"))))
          [] text = "ghost@1" ->
                PackageManifest("1.0.0", Nothing,
                    OneTarget("x86_64-linux", Target(FileUrl("missing"), "a", Digest("good"))))
          [] text = "bin@1" ->
                PackageManifest("1.0.0", Nothing,
                    OneTarget("x86_64-linux", Target(FileUrl("good"), "a", <<"b", "a", "d">>)))
          [] OTHER ->
                PackageManifest("1.0.0", Some("a tool"),
                    OneTarget("aarch64-macos", Target(FileUrl("good"), "a", Digest("good"))))]

\* toml::from_str::<PackageManifest>(&content).ok(): version and targets are required,
\* description is optional, unknown keys are ignored; any other text is an error.
toml_from_str(text) ==
    IF text \in DOMAIN HandWritten THEN Some(HandWritten[text])
    ELSE IF text \in DOMAIN Published THEN Some(Published[text])
    ELSE IF text \in DOMAIN ManifestOfText THEN Some(ManifestOfText[text])
    ELSE Nothing

\* fs::read_to_string(path).ok()
read_to_string(tree, path) ==
    IF path \in DOMAIN tree /\ tree[path].kind \in {"file", "linkfile"}
          /\ tree[path].data \notin NonUtf8
    THEN Some(tree[path].data)
    ELSE Nothing

\* The package names asked for, and name.chars().next() of each.
QueryNames == {"", "tool", "fzf", "top", "deep", "bin", "dir", "ghost"}
FirstChar ==
    [n \in QueryNames \ {""} |->
        CASE n = "tool" -> "t" [] n = "top" -> "t" [] n = "fzf" -> "f"
          [] n = "deep" -> "d" [] n = "bin" -> "b" [] n = "dir" -> "d" [] OTHER -> "g"]

chars_next(name) == IF name = "" THEN Nothing ELSE Some(FirstChar[name])

\* lines 10-14: registry_dir/packages/<prefix>/<name>.toml
ManifestPath(name) == <<"packages", chars_next(name)[1], name \o ".toml">>

\* A mutant of find_package: the manifest is looked for in every shard directory.
find_package_any_shard(tree, name) ==
    LET hits == {p \in DOMAIN tree :
                    /\ Len(p) = 3 /\ p[1] = "packages" /\ p[3] = name \o ".toml"
                    /\ read_to_string(tree, p) # Nothing
                    /\ toml_from_str(tree[p].data) # Nothing}
    IN  IF hits = {} THEN Nothing
        ELSE toml_from_str(tree[CHOOSE p \in hits : TRUE].data)

\* find_package: lines 7-20
find_package(tree, name) ==
    IF chars_next(name) = Nothing THEN Nothing
    ELSE LET content == read_to_string(tree, ManifestPath(name))
         IN  IF content = Nothing THEN Nothing ELSE toml_from_str(content[1])

\* Path::file_stem: the file name without its last extension.
Stems == (QueryNames \ {""}) \cup {"README"}
Extensions == {"", ".toml", ".txt"}
file_stem(fname) == CHOOSE st \in Stems : \E e \in Extensions : st \o e = fname

\* The order of str::cmp on the stems.
StemOrder == <<"README", "bin", "deep", "dir", "fzf", "ghost", "tool", "top">>
StemRank(st) == CHOOSE i \in 1..Len(StemOrder) : StemOrder[i] = st

\* lines 31-53: the entries of the walk at depth 2 that are files and parse.
ListedEntries(tree) ==
    {p \in DOMAIN tree :
        /\ Len(p) = 3 /\ p[1] = "packages"
        /\ tree[p].kind = "file"
        /\ LET content == read_to_string(tree, p)
           IN  toml_from_str(IF content = Nothing THEN "" ELSE content[1]) # Nothing}

ListedPair(tree, p) == <<file_stem(p[3]), toml_from_str(tree[p].data)[1]>>

\* list_available_packages: lines 23-57. WalkDir yields the entries in directory
\* order and sort_by is stable, so entries of one name come in any order.
list_available_packages(tree) ==
    IF Pkgs \notin DOMAIN tree THEN {<<>>}
    ELSE LET found == ListedEntries(tree)
             n == Cardinality(found)
             walks == {w \in [1..n -> found] :
                          /\ \A i, j \in 1..n : i # j => w[i] # w[j]
                          /\ \A i \in 1..(n - 1) :
                                StemRank(file_stem(w[i][3])) <= StemRank(file_stem(w[i + 1][3]))}
         IN  {[i \in 1..n |-> ListedPair(tree, w[i])] : w \in walks}

FindPackage ==
    /\ pc = "idle"
    /\ \E name \in QueryNames :
          /\ op' = Op("find", name, "", NoTarget)
          /\ result' = Ok(find_package(cache, name))
    /\ pre' = Snapshot
    /\ UNCHANGED <<pc, state, stateFile, binDir, nOps, cache, source, cur, events,
                   writes, verifyVars, mainVars>>

ListAvailablePackages ==
    /\ pc = "idle"
    /\ \E listing \in list_available_packages(cache) : result' = Ok(listing)
    /\ op' = Op("list", "", "", NoTarget)
    /\ pre' = Snapshot
    /\ UNCHANGED <<pc, state, stateFile, binDir, nOps, cache, source, cur, events,
                   writes, verifyVars, mainVars>>

-----------------------------------------------------------------------------
(* Manifest writer: src/core/dev.rs write_package_manifest *)

\* The values of registry_source: unset, a local path, a URL. Only the local path
\* names something on disk.
LocalRegistry == "/registry"
RegistrySources == {"", LocalRegistry, "https://example.com/registry.tar.gz"}

MustBeSetMsg ==
    "RUSH_REGISTRY_URL must be set to your local git repository path to alter the local registry."

\* A mutant of ensure_local_registry: any path that exists is accepted.
ensure_local_registry_any_path(registry_source, tree) ==
    IF registry_source = "" \/ <<>> \notin DOMAIN tree
    THEN Err(<<MustBeSetMsg>>)
    ELSE Ok(registry_source)

\* ensure_local_registry: lines 100-111. tree is what is on disk at the path.
ensure_local_registry(registry_source, tree) ==
    IF registry_source = "" \/ <<>> \notin DOMAIN tree \/ tree[<<>>].kind # "dir"
    THEN Err(<<MustBeSetMsg>>)
    ELSE Ok(registry_source)

\* lines 65-69, 74-78: the manifest of a package that has none yet
FreshManifest(version) == PackageManifest(version, Nothing, NoTargets)

\* A mutant of Upserted: the targets written before are dropped.
UpsertedAlone(manifest, version, target_arch, t) ==
    [manifest EXCEPT !.version = version,
                     !.targets = [k \in {target_arch} |-> t]]

\* lines 82-90: manifest.version = version; manifest.targets.insert(target_arch, t)
Upserted(manifest, version, target_arch, t) ==
    [manifest EXCEPT !.version = version,
                     !.targets = [k \in DOMAIN manifest.targets \cup {target_arch} |->
                                     IF k = target_arch THEN t ELSE manifest.targets[k]]]

\* line 72: create_dir_all(dir) on a tree where every ancestor is a directory
WithDirs(tree, dir) ==
    Overlay(tree, [q \in {SubSeq(dir, 1, k) : k \in 0..Len(dir)} |-> Dir])

\* line 94: fs::write(path, text): the file is created, or the file there (or the
\* file a symlink there points to) gets the text.
Written(tree, path, text) ==
    Overlay(tree, [q \in {path} |->
                      IF path \in DOMAIN tree
                      THEN [tree[path] EXCEPT !.data = text]
                      ELSE RegFile(text)])

\* write_package_manifest: lines 46-97. The trees it can leave at the registry path
\* and the result it returns.
write_package_manifest(registry_source, tree, name, version, target_arch, url, bin_name, sha256) ==
    LET checked == ensure_local_registry(registry_source, tree)
    IN  IF ~checked.ok THEN {[source |-> tree, res |-> checked]}
        ELSE IF chars_next(name) = Nothing
        THEN {[source |-> tree, res |-> Err(<<"Package name empty">>)]}
        ELSE
        LET package_dir  == <<"packages", chars_next(name)[1]>>
            package_path == package_dir \o <<name \o ".toml">>
            t == ManifestTarget(url, IF bin_name = Nothing THEN name ELSE bin_name[1], sha256)
            blocked(tr, dir) ==
                \E k \in 1..Len(dir) :
                    SubSeq(dir, 1, k) \in DOMAIN tr /\ tr[SubSeq(dir, 1, k)].kind # "dir"
        IN  IF package_path \in DOMAIN tree
            THEN LET content == read_to_string(tree, package_path)
                 IN  IF content = Nothing
                     THEN {[source |-> tree, res |-> Err(<<"failed to read">>)]}
                     ELSE LET loaded == toml_from_str(content[1])
                              manifest == IF loaded = Nothing THEN FreshManifest(version)
                                          ELSE loaded[1]
                              text == to_string_pretty(
                                          Upserted(manifest, version, target_arch, t))
                          IN  {[source |-> Written(tree, package_path, text),
                                res |-> Ok("written")],
                               [source |-> Written(tree, package_path, ""),
                                res |-> Err(<<"failed to write">>)]}
            ELSE IF blocked(tree, package_dir)
            THEN {[source |-> tree, res |-> Err(<<"Not a directory">>)]}
            ELSE LET made == WithDirs(tree, package_dir)
                     text == to_string_pretty(
                                 Upserted(FreshManifest(version), version, target_arch, t))
                 IN  {[source |-> Written(made, package_path, text), res |-> Ok("written")],
                      [source |-> made, res |-> Err(<<"failed to write">>)]}

\* Registry directories a developer writes to.
SrcRootFile == MkTree({<< <<>>, RegFile("readme") >>})
SrcBroken ==
    MkTree({<< <<>>, Dir >>, << Pkgs, Dir >>, << <<"packages", "t">>, Dir >>,
            << <<"packages", "t", "tool.toml">>, RegFile("readme") >>})
DevSources == {SrcMissing, SrcBare, SrcOne, SrcTwo, SrcFilePkgs, SrcRootFile, SrcBroken}

WriteNames == {"", "tool", "fzf"}

\* Bound: the writes of one run.
MaxWrites == 2

WriteArgs(registry_source, target_arch, url, bin_name, sha256) ==
    [registry_source |-> registry_source, target_arch |-> target_arch, url |-> url,
     bin_name |-> bin_name, sha256 |-> sha256]

WriteManifest ==
    /\ pc = "idle"
    /\ nOps < MaxWrites
    /\ \E registry_source \in RegistrySources, name \in WriteNames, version \in Versions,
          target_arch \in Triples, asset \in Assets, bin_name \in {Nothing, Some("tl")} :
          \E out \in write_package_manifest(
                         registry_source,
                         IF registry_source = LocalRegistry THEN source ELSE NoTree,
                         name, version, target_arch, asset[1], bin_name, asset[2]) :
              /\ source' = IF registry_source = LocalRegistry THEN out.source ELSE source
              /\ result' = out.res
              /\ op' = Op("write", name, version,
                          WriteArgs(registry_source, target_arch, asset[1], bin_name,
                                    asset[2]))
    /\ pre' = Snapshot
    /\ nOps' = nOps + 1
    /\ UNCHANGED <<pc, state, stateFile, binDir, cache, cur, events, writes, verifyVars, mainVars>>

InitDev ==
    /\ pc = "idle"
    /\ state = EmptyState
    /\ stateFile = NoFile
    /\ binDir = EmptyDir
    /\ op = Op("none", "", "", NoTarget)
    /\ cur = NoCur
    /\ events = <<>>
    /\ result = Pending
    /\ source \in DevSources
    /\ pre = [state |-> EmptyState, stateFile |-> NoFile, binDir |-> EmptyDir,
              cache |-> NoTree, source |-> source]
    /\ writes = <<>>
    /\ nOps = 0
    /\ cache = NoTree
    /\ vin = 0
    /\ vout = 0
    /\ proc = NoProc

NextDev == WriteManifest

SpecDev == InitDev /\ [][NextDev]_vars

-----------------------------------------------------------------------------
(* Asset ranking: src/core/dev.rs calculate_asset_score, build_candidates_from_release *)

\* File names are sequences of characters. The words they are made of, spelled out.
NameTokens ==
    {"", "unknown", "linux", "x86_64", "amd64", "musl", "gnu", "aarch64", "arm64",
     "armv7", "darwin", "apple", "macos", "windows", "checksums", "design"}
NameExtensions ==
    {"", ".tar.gz", ".tgz", ".zip", ".deb", ".rpm", ".msi", ".exe", ".tar.gz.sha256",
     ".sig"}
Keywords ==
    {"sha256", "sum", "sig", "linux", "x86_64", "amd64", "musl", "gnu", "aarch64",
     "arm", "arm64", "darwin", "apple", "macos", "windows", ".exe", ".tar.gz", ".tgz",
     ".zip", ".deb", ".rpm", ".msi", "app", "-"}
Words == NameTokens \cup NameExtensions \cup Keywords

Spell ==
    [w \in Words |->
        CASE w = "" -> <<>>
          [] w = "unknown" -> <<"u", "n", "k", "n", "o", "w", "n">>
          [] w = "linux" -> <<"l", "i", "n", "u", "x">>
          [] w = "x86_64" -> <<"x", "8", "6", "_", "6", "4">>
          [] w = "amd64" -> <<"a", "m", "d", "6", "4">>
          [] w = "musl" -> <<"m", "u", "s", "l">>
          [] w = "gnu" -> <<"g", "n", "u">>
          [] w = "aarch64" -> <<"a", "a", "r", "c", "h", "6", "4">>
          [] w = "arm64" -> <<"a", "r", "m", "6", "4">>
          [] w = "armv7" -> <<"a", "r", "m", "v", "7">>
          [] w = "darwin" -> <<"d", "a", "r", "w", "i", "n">>
          [] w = "apple" -> <<"a", "p", "p", "l", "e">>
          [] w = "macos" -> <<"m", "a", "c", "o", "s">>
          [] w = "windows" -> <<"w", "i", "n", "d", "o", "w", "s">>
          [] w = "checksums" -> <<"c", "h", "e", "c", "k", "s", "u", "m", "s">>
          [] w = "design" -> <<"d", "e", "s", "i", "g", "n">>
          [] w = ".tar.gz" -> <<".", "t", "a", "r", ".", "g", "z">>
          [] w = ".tgz" -> <<".", "t", "g", "z">>
          [] w = ".zip" -> <<".", "z", "i", "p">>
          [] w = ".deb" -> <<".", "d", "e", "b">>
          [] w = ".rpm" -> <<".", "r", "p", "m">>
          [] w = ".msi" -> <<".", "m", "s", "i">>
          [] w = ".exe" -> <<".", "e", "x", "e">>
          [] w = ".tar.gz.sha256" -> <<".", "t", "a", "r", ".", "g", "z", ".", "s", "h", "a", "2", "5", "6">>
          [] w = ".sig" -> <<".", "s", "i", "g">>
          [] w = "sha256" -> <<"s", "h", "a", "2", "5", "6">>
          [] w = "sum" -> <<"s", "u", "m">>
          [] w = "sig" -> <<"s", "i", "g">>
          [] w = "arm" -> <<"a", "r", "m">>
          [] w = "app" -> <<"a", "p", "p">>
          [] OTHER -> <<"-">>]

UpperLetters ==
    <<"A", "B", "C", "D", "E", "F", "G", "H", "I", "J", "K", "L", "M", "N", "O", "P", "Q",
      "R", "S", "T", "U", "V", "W", "X", "Y", "Z">>
LowerLetters ==
    <<"a", "b", "c", "d", "e", "f", "g", "h", "i", "j", "k", "l", "m", "n", "o", "p", "q",
      "r", "s", "t", "u", "v", "w", "x", "y", "z">>

\* str::to_lowercase and str::to_uppercase on ASCII text
to_lowercase(name) ==
    [i \in 1..Len(name) |->
        IF \E k \in 1..26 : UpperLetters[k] = name[i]
        THEN LowerLetters[CHOOSE k \in 1..26 : UpperLetters[k] = name[i]]
        ELSE name[i]]

to_uppercase(name) ==
    [i \in 1..Len(name) |->
        IF \E k \in 1..26 : LowerLetters[k] = name[i]
        THEN UpperLetters[CHOOSE k \in 1..26 : LowerLetters[k] = name[i]]
        ELSE name[i]]

\* str::ends_with and str::contains
ends_with(name, word) ==
    /\ Len(Spell[word]) <= Len(name)
    /\ SubSeq(name, Len(name) - Len(Spell[word]) + 1, Len(name)) = Spell[word]

contains(name, word) ==
    \E i \in 1..(Len(name) - Len(Spell[word]) + 1) :
        SubSeq(name, i, i + Len(Spell[word]) - 1) = Spell[word]

\* lines 173-231: the score of a name already in lower case
ScoreOfLowered(name, target_arch) ==
    LET s1 == IF ends_with(name, ".tar.gz") \/ ends_with(name, ".tgz") THEN 20 ELSE 0
        s2 == IF ends_with(name, ".zip") THEN s1 - 10 ELSE s1
        s3 == IF ends_with(name, ".deb") \/ ends_with(name, ".rpm") \/ ends_with(name, ".msi")
              THEN s2 - 100 ELSE s2
        s4 == IF contains(name, "sha256") \/ contains(name, "sum") \/ contains(name, "sig")
              THEN s3 - 100 ELSE s3
    IN  CASE target_arch = "x86_64-linux" ->
               LET a1 == IF contains(name, "linux") THEN s4 + 10 ELSE s4
                   a2 == IF contains(name, "x86_64") \/ contains(name, "amd64")
                         THEN a1 + 10 ELSE a1
                   a3 == IF contains(name, "musl") THEN a2 + 5 ELSE a2
                   a4 == IF contains(name, "gnu") THEN a3 + 3 ELSE a3
                   a5 == IF contains(name, "aarch64") \/ contains(name, "arm")
                         THEN a4 - 50 ELSE a4
                   a6 == IF contains(name, "darwin") \/ contains(name, "apple")
                            \/ contains(name, "macos")
                         THEN a5 - 50 ELSE a5
               IN  IF contains(name, "windows") \/ contains(name, ".exe")
                   THEN a6 - 50 ELSE a6
          [] target_arch = "aarch64-macos" ->
               LET b1 == IF contains(name, "apple") \/ contains(name, "darwin")
                            \/ contains(name, "macos")
                         THEN s4 + 10 ELSE s4
                   b2 == IF contains(name, "aarch64") \/ contains(name, "arm64")
                         THEN b1 + 10 ELSE b1
                   b3 == IF contains(name, "linux") THEN b2 - 50 ELSE b2
                   b4 == IF contains(name, "x86_64") \/ contains(name, "amd64")
                         THEN b3 - 50 ELSE b3
               IN  IF contains(name, "windows") \/ contains(name, ".exe")
                   THEN b4 - 50 ELSE b4
          [] OTHER -> s4

\* A mutant of calculate_asset_score: the name is scored as it is written.
calculate_asset_score_as_written(name, target_arch) == ScoreOfLowered(name, target_arch)

\* calculate_asset_score: lines 171-232
calculate_asset_score(name, target_arch) == ScoreOfLowered(to_lowercase(name), target_arch)

\* The asset names scored: app-<token>-<token><extension>, in lower case, in upper
\* case, or with a capital first letter in each word.
Joined(t1, t2, ext) ==
    Spell["app"] \o Spell["-"] \o Spell[t1] \o Spell["-"] \o Spell[t2] \o Spell[ext]

Capitalized(word) ==
    IF Spell[word] = <<>> THEN <<>>
    ELSE to_uppercase(SubSeq(Spell[word], 1, 1)) \o SubSeq(Spell[word], 2, Len(Spell[word]))

AssetNames ==
    UNION {{Joined(t1, t2, ext),
            to_uppercase(Joined(t1, t2, ext)),
            Capitalized("app") \o Spell["-"] \o Capitalized(t1) \o Spell["-"]
                \o Capitalized(t2) \o Spell[ext]} :
              t1 \in NameTokens, t2 \in NameTokens, ext \in NameExtensions}

ScoreTriples == Triples \cup {"riscv64-linux"}

InitScore ==
    /\ EngineInitState
    /\ stateFile = NoFile
    /\ cache = 0
    /\ source = 0
    /\ vin \in [name : AssetNames, target_arch : ScoreTriples]
    /\ vout = Pending

ScoreCall ==
    /\ vout = Pending
    /\ vout' = Ok(calculate_asset_score(vin.name, vin.target_arch))
    /\ UNCHANGED <<engineVars, syncVars, vin, mainVars>>

NextScore == ScoreCall

SpecScore == InitScore /\ [][NextScore]_vars

\* GitHubAsset {name, browser_download_url} and ScoredAsset {score, asset}
GitHubAsset(name, url) == [name |-> name, browser_download_url |-> url]
ScoredAsset(score, asset) == [score |-> score, asset |-> asset]

\* A mutant of Inserted: the asset goes ahead of the assets of its score.
InsertedBeforeTies(sorted, x) ==
    LET k == Cardinality({i \in 1..Len(sorted) : sorted[i].score > x.score})
    IN  SubSeq(sorted, 1, k) \o <<x>> \o SubSeq(sorted, k + 1, Len(sorted))

\* line 158: sort_by(|a, b| b.score.cmp(&a.score)) is a stable sort: an asset comes
\* after every asset listed before it whose score is not lower.
Inserted(sorted, x) ==
    LET k == Cardinality({i \in 1..Len(sorted) : sorted[i].score >= x.score})
    IN  SubSeq(sorted, 1, k) \o <<x>> \o SubSeq(sorted, k + 1, Len(sorted))

RECURSIVE SortedByScore(_, _)
SortedByScore(scored, n) ==
    IF n = 0 THEN <<>> ELSE Inserted(SortedByScore(scored, n - 1), scored[n])

\* lines 140-143
target_defs ==
    << <<"Linux (x86_64)", "x86_64-linux">>, <<"macOS (Apple Silicon)", "aarch64-macos">> >>

\* line 138: tag_name.trim_start_matches('v')
trim_start_v(tag_name) ==
    IF \E v \in Versions : "v" \o v = tag_name
    THEN CHOOSE v \in Versions : "v" \o v = tag_name
    ELSE tag_name

\* lines 147-165: one ImportCandidate
ImportCandidate(desc, target_key, assets) ==
    [target_desc |-> desc, target_slug |-> target_key,
     assets |-> SortedByScore(
                    [i \in 1..Len(assets) |->
                        ScoredAsset(calculate_asset_score(assets[i].name, target_key),
                                    assets[i])],
                    Len(assets))]

\* build_candidates_from_release: lines 137-168
build_candidates_from_release(release) ==
    [version |-> trim_start_v(release.tag_name),
     candidates |-> [t \in 1..Len(target_defs) |->
                        ImportCandidate(target_defs[t][1], target_defs[t][2], release.assets)]]

\* Bound: the assets of a release.
MaxAssets == 3

\* The releases ranked.
ReleaseAssets ==
    {GitHubAsset(Joined("linux", "amd64", ".tar.gz"), "http://a.tar.gz"),
     GitHubAsset(Joined("linux", "x86_64", ".tar.gz"), "http://b.tar.gz"),
     GitHubAsset(Joined("aarch64", "darwin", ".tar.gz"), "http://a.tar.gz"),
     GitHubAsset(Joined("windows", "amd64", ".zip"), "http://b.tar.gz")}

Releases ==
    [tag_name : {"v1.0.0", "2.0.0"},
     assets : UNION {[1..n -> ReleaseAssets] : n \in 0..MaxAssets}]

InitRank ==
    /\ EngineInitState
    /\ stateFile = NoFile
    /\ cache = 0
    /\ source = 0
    /\ vin \in Releases
    /\ vout = Pending

RankCall ==
    /\ vout = Pending
    /\ vout' = Ok(build_candidates_from_release(vin))
    /\ UNCHANGED <<engineVars, syncVars, vin, mainVars>>

NextRank == RankCall

SpecRank == InitRank /\ [][NextRank]_vars

InitSync ==
    /\ pc = "idle"
    /\ state = EmptyState
    /\ stateFile = NoFile
    /\ binDir = EmptyDir
    /\ op = Op("none", "", "", NoTarget)
    /\ cur = NoCur
    /\ events = <<>>
    /\ result = Pending
    /\ pre = [state |-> EmptyState, stateFile |-> NoFile, binDir |-> EmptyDir,
              cache |-> NoTree, source |-> SrcOne]
    /\ writes = <<>>
    /\ nOps = 0
    /\ cache = NoTree
    /\ source = SrcOne
    /\ vin = 0
    /\ vout = 0
    /\ proc = NoProc

NextSync ==
    \/ UpdateRegistry
    \/ UpdateRegistryRemote
    \/ EditSource
    \/ FindPackage
    \/ ListAvailablePackages

SpecSync == InitSync /\ [][NextSync]_vars

-----------------------------------------------------------------------------
(* The commands: src/main.rs main *)

\* line 25: format!("{}-{}", ARCH, OS) on the machine the process runs on
CurrentTarget == "x86_64-linux"

\* Bound: the commands run in one behaviour.
MaxCommands == 6

\* A registry source directory holding the manifest files pkgs: <<name, text>>.
RegistryOf(pkgs) ==
    MkTree({<< <<>>, Dir >>, << Pkgs, Dir >>}
           \cup {<< <<"packages", FirstChar[x[1]]>>, Dir >> : x \in pkgs}
           \cup {<< <<"packages", FirstChar[x[1]], x[1] \o ".toml">>, RegFile(x[2]) >> :
                    x \in pkgs})

\* The registry as first published, and after tool was released at 2.0.0, fzf lost
\* its target for this machine and top was withdrawn.
Published1 ==
    RegistryOf({<<"tool", "tool@1">>, <<"fzf", "fzf@1">>, <<"top", "top@1">>,
                <<"ghost", "ghost@1">>, <<"bin", "bin@1">>, <<"deep", "deep@1">>})
Published2 ==
    RegistryOf({<<"tool", "tool@2">>, <<"fzf", "fzf@2">>,
                <<"ghost", "ghost@1">>, <<"bin", "bin@1">>, <<"deep", "deep@1">>})
PublishedSources == {Published1, Published2}

InstallNames == {"tool", "fzf", "top", "ghost", "bin", "deep", "dir"}

\* The process ends with status exit, having printed line.
Ended(cmd, arg, fetched, out, exit) ==
    /\ proc' = Proc(cmd, arg, <<>>, FALSE, fetched, out, exit)
    /\ pc' = "off"
    /\ state' = EmptyState

\* lines 37-75 and 263: whatever the install arm printed, main returns Ok(()).
ExitOfInstall(carried_out) == "success"

\* main, Commands::Install, lines 22 and 37-57: the engine is built, and unless the
\* package is installed already, is not in the cache or has no target for this
\* machine, install_package is called.
MainInstall ==
    /\ pc = "off"
    /\ nOps < MaxCommands
    /\ nOps' = nOps + 1
    /\ pre' = Snapshot
    /\ \E name \in InstallNames :
          LET l == LoadState(stateFile)
              found == find_package(cache, name)
          IN  IF ~l.ok
              THEN /\ Ended("install", name, <<>>, <<>>, "failure")
                   /\ UNCHANGED <<op, cur, events, result, writes>>
              ELSE IF name \in DOMAIN l.val
              THEN /\ Ended("install", name, <<>>, <<"Warning: already installed">>, "success")
                   /\ UNCHANGED <<op, cur, events, result, writes>>
              ELSE IF found = Nothing
              THEN /\ Ended("install", name, <<>>, <<"Error: Package not found">>,
                            ExitOfInstall(FALSE))
                   /\ UNCHANGED <<op, cur, events, result, writes>>
              ELSE IF CurrentTarget \notin DOMAIN found[1].targets
              THEN /\ Ended("install", name, <<>>, <<"Error: No compatible binary">>,
                            ExitOfInstall(FALSE))
                   /\ UNCHANGED <<op, cur, events, result, writes>>
              ELSE /\ proc' = Proc("install", name, <<>>, TRUE, <<name>>,
                                   <<"Installing">>, "running")
                   /\ pc' = "download"
                   /\ state' = l.val
                   /\ op' = Op("install", name, found[1].version,
                               found[1].targets[CurrentTarget])
                   /\ cur' = NoCur
                   /\ events' = <<>>
                   /\ result' = Pending
                   /\ writes' = <<>>
    /\ UNCHANGED <<stateFile, binDir, syncVars, verifyVars>>

\* lines 57-64 and 263: install_package has returned; its result is printed and
\* main returns.
MainInstallReturn ==
    /\ pc = "idle"
    /\ proc.cmd = "install"
    /\ proc.exit = "running"
    /\ Ended("install", proc.arg, proc.fetched,
             Append(proc.out, IF result.ok THEN "Success: Installed" ELSE "Error: e"),
             ExitOfInstall(result.ok))
    /\ UNCHANGED <<stateFile, binDir, op, cur, events, result, pre, writes, nOps>>
    /\ UNCHANGED <<syncVars, verifyVars>>

\* main, Commands::Upgrade, lines 22 and 91-94: installed_names are the keys of the
\* State, in the order the HashMap iterates them.
MainUpgrade ==
    /\ pc = "off"
    /\ nOps < MaxCommands
    /\ nOps' = nOps + 1
    /\ LET l == LoadState(stateFile)
       IN  /\ pre' = [Snapshot EXCEPT !.state = IF l.ok THEN l.val ELSE EmptyState]
           /\ IF ~l.ok
              THEN Ended("upgrade", "", <<>>, <<>>, "failure")
              ELSE /\ \E names \in [1..Cardinality(DOMAIN l.val) -> DOMAIN l.val] :
                         /\ Range(names) = DOMAIN l.val
                         /\ proc' = Proc("upgrade", "", names, FALSE, <<>>,
                                         <<"Checking for upgrades">>, "running")
                   /\ pc' = "idle"
                   /\ state' = l.val
    /\ UNCHANGED <<stateFile, binDir, op, cur, events, result, writes>>
    /\ UNCHANGED <<syncVars, verifyVars>>

\* lines 96-124 and 128: the next name of the loop is skipped or install_package is
\* called for it; after the last one the count is printed and main returns.
UpgradeNext ==
    /\ pc = "idle"
    /\ proc.cmd = "upgrade"
    /\ proc.exit = "running"
    /\ ~proc.installing
    /\ IF proc.todo = <<>>
       THEN /\ Ended("upgrade", "", proc.fetched,
                     Append(proc.out, "Success: packages upgraded"), "success")
            /\ UNCHANGED <<op, cur, events, result, writes>>
       ELSE LET name == Head(proc.todo)
                current_ver == state[name].version
                found == find_package(cache, name)
                skip == IF found = Nothing THEN TRUE
                        ELSE \/ CurrentTarget \notin DOMAIN found[1].targets
                             \/ found[1].version = current_ver
            IN  IF skip
                THEN /\ proc' = [proc EXCEPT !.todo = Tail(@)]
                     /\ UNCHANGED <<pc, state, op, cur, events, result, writes>>
                ELSE /\ proc' = [proc EXCEPT !.todo = Tail(@), !.installing = TRUE,
                                             !.fetched = Append(@, name),
                                             !.out = Append(@, "Upgrading")]
                     /\ pc' = "download"
                     /\ op' = Op("install", name, found[1].version,
                                 found[1].targets[CurrentTarget])
                     /\ cur' = NoCur
                     /\ events' = <<>>
                     /\ result' = Pending
                     /\ writes' = <<>>
                     /\ UNCHANGED state
    /\ UNCHANGED <<stateFile, binDir, pre, nOps>>
    /\ UNCHANGED <<syncVars, verifyVars>>

\* lines 124-125: the ? on the install_package of the loop
UpgradeInstallReturn ==
    /\ pc = "idle"
    /\ proc.cmd = "upgrade"
    /\ proc.installing
    /\ IF result.ok
       THEN /\ proc' = [proc EXCEPT !.installing = FALSE]
            /\ UNCHANGED <<pc, state>>
       ELSE Ended("upgrade", "", proc.fetched, proc.out, "failure")
    /\ UNCHANGED <<stateFile, binDir, op, cur, events, result, pre, writes, nOps>>
    /\ UNCHANGED <<syncVars, verifyVars>>

\* main, Commands::Update, lines 22 and 131-171, with a local directory as the
\* registry source
MainUpdate ==
    /\ pc = "off"
    /\ nOps < MaxCommands
    /\ nOps' = nOps + 1
    /\ pre' = Snapshot
    /\ LET l == LoadState(stateFile)
       IN  IF ~l.ok
           THEN /\ Ended("update", "", <<>>, <<>>, "failure")
                /\ UNCHANGED <<cache, events, result>>
           ELSE \E o \in update_registry(source, cache) :
                   /\ cache' = o.cache
                   /\ result' = o.res
                   /\ events' = << <<"Fetching", "local">> >>
                   /\ Ended("update", "", <<>>,
                            IF o.res.ok THEN <<"Fetching registry", "Success: Registry updated">>
                            ELSE <<"Fetching registry">>,
                            IF o.res.ok THEN "success" ELSE "failure")
    /\ op' = Op("sync", "", "", NoTarget)
    /\ writes' = <<>>
    /\ cur' = NoCur
    /\ UNCHANGED <<stateFile, binDir, source, verifyVars>>

\* The registry source directory is changed between two commands.
Publish ==
    /\ pc = "off"
    /\ \E s \in PublishedSources : s # source /\ source' = s
    /\ UNCHANGED <<engineVars, cache, verifyVars, mainVars>>

InitMain ==
    /\ EngineInitState
    /\ stateFile = NoFile
    /\ cache = NoTree
    /\ source = Published1
    /\ vin = 0
    /\ vout = 0

NextMain ==
    \/ MainInstall \/ MainInstallReturn
    \/ MainUpgrade \/ UpgradeNext \/ UpgradeInstallReturn
    \/ MainUpdate \/ Publish
    \/ Download \/ Verify \/ BeginExtract \/ Scan
    \/ TmpCreate \/ CopyByte \/ Chmod \/ Persist \/ Record \/ Succeed

SpecMain == InitMain /\ [][NextMain]_vars

\* The files under packages/ of a tree: relative path and the content read there.
FilesUnderPackages(tree) ==
    {<<Rel(p, Pkgs), tree[p].data>> :
        p \in {q \in DOMAIN tree : IsPrefix(Pkgs, q) /\ tree[q].kind \in {"file", "linkfile"}}}

SyncOk == op.kind = "sync" /\ result.ok

\* C10: after a sync from a local directory returns Ok, the files under the cache's
\* packages/ are the files under the source's packages/, same relative paths and
\* contents; a file that was in the cache and is not in the source is gone; and a
\* second sync from the unchanged source leaves the same cache.
C10_SyncMirrorsSource ==
    /\ [](SyncOk =>
            /\ FilesUnderPackages(cache) = FilesUnderPackages(source)
            /\ \A p \in DOMAIN cache : IsPrefix(Pkgs, p) \/ p = <<>>
            /\ \A p \in DOMAIN pre.cache :
                  (pre.cache[p].kind = "file" /\ p \notin DOMAIN source) => p \notin DOMAIN cache)
    /\ [][(SyncOk /\ op'.kind = "sync" /\ result'.ok) => cache' = cache]_vars

\* C10 witness: a sync returned Ok after a manifest of the cache had been deleted
\* from the source; other manifests are in the cache.
C10_Witness ==
    /\ SyncOk
    /\ \E p \in DOMAIN pre.cache : pre.cache[p].kind = "file" /\ p \notin DOMAIN cache
    /\ \E p \in DOMAIN cache : cache[p].kind = "file"

\* The source is an existing directory that has no packages/ in it.
SourceLacksPackages == <<>> \in DOMAIN source /\ Pkgs \notin DOMAIN source

NothingListed(tree) ==
    /\ list_available_packages(tree) = {<<>>}
    /\ \A name \in QueryNames : find_package(tree, name) = Nothing

\* C11: a sync from an existing local directory that has no packages/ returns Ok, and
\* then list_available_packages returns the empty list and find_package finds no
\* name, whatever the cache held before.
C11_NoPackagesEmptyListing ==
    (op.kind = "sync" /\ SourceLacksPackages) => (result.ok /\ NothingListed(cache))

\* C11 witness: such a sync returned over a cache in which packages were listed.
C11_Witness ==
    /\ op.kind = "sync" /\ SourceLacksPackages /\ result.ok
    /\ ~NothingListed(pre.cache)
    /\ \E name \in QueryNames : find_package(pre.cache, name) # Nothing

\* The text holds "not found".
ContainsNotFound(text) ==
    \E before \in {"", "Local registry path "}, after \in {"", ": "} :
        before \o "not found" \o after = text

\* C12: a sync whose local source path does not exist returns an error whose message
\* holds "not found", and nothing was copied into the cache.
C12_MissingSourceFails ==
    (op.kind = "sync" /\ <<>> \notin DOMAIN source) =>
        /\ ~result.ok
        /\ \E i \in 1..Len(result.msg) : ContainsNotFound(result.msg[i])
        /\ DOMAIN cache \subseteq {<<>>}

\* C12 witness: the sync failed on a missing source, over a cache that held manifests.
C12_Witness ==
    /\ op.kind = "sync" /\ <<>> \notin DOMAIN source /\ ~result.ok
    /\ \E p \in DOMAIN pre.cache : pre.cache[p].kind = "file"

\* The archive the last sync fetched.
SyncedArchive == Remote(op.target.url).body

\* The entries of an archive with a path segment named exactly packages that has
\* further components after it, and where the claim puts them.
ExactEntries(archive) ==
    {i \in 1..Len(archive) :
        \E k \in 1..(Len(archive[i].path) - 1) : archive[i].path[k] = "packages"}

FromExactSegment(path) ==
    LET k == CHOOSE k \in 1..Len(path) :
                 path[k] = "packages" /\ \A j \in 1..(k - 1) : path[j] # "packages"
    IN  SubSeq(path, k, Len(path))

\* C13: after a sync from an archive returns Ok, the files of the cache are the file
\* entries whose path has a segment named exactly packages followed by further
\* components, each at the path that starts from that segment; an entry under
\* mypackages/ is not written.
C13_ExactPackagesSegment ==
    (op.kind = "sync_archive" /\ result.ok) =>
        {<<p, cache[p].data>> : p \in {q \in DOMAIN cache : cache[q].kind = "file"}}
            = {<<FromExactSegment(SyncedArchive[i].path), SyncedArchive[i].data>> :
                  i \in {j \in ExactEntries(SyncedArchive) : SyncedArchive[j].kind = "file"}}

\* What the code does for C13: an entry is written when the text of its path holds
\* "packages/", at the path that starts from the first such occurrence; the files of
\* the cache are those of them whose path stays in the cache.
C13_SubstringRule ==
    (op.kind = "sync_archive" /\ result.ok) =>
        {<<p, cache[p].data>> : p \in {q \in DOMAIN cache : cache[q].kind = "file"}}
            = {<<Rel(Resolve(RegistryDir,
                             RelativeDest(SyncedArchive[i], FindPackages(SyncedArchive[i])[1])),
                     RegistryDir),
                 SyncedArchive[i].data>> :
                  i \in {j \in 1..Len(SyncedArchive) :
                            /\ SyncedArchive[j].kind = "file"
                            /\ FindPackages(SyncedArchive[j]) # Nothing
                            /\ IsPrefix(RegistryDir, Resolve(RegistryDir,
                                   RelativeDest(SyncedArchive[j],
                                                FindPackages(SyncedArchive[j])[1])))}}

\* C14: find_package(name) returns the parsed manifest exactly when
\* <cache>/packages/<first character of name>/<name>.toml is a readable file that
\* parses as a PackageManifest; for the empty name, a missing or unreadable file,
\* or text that does not parse it returns None; the cache is as it was.
C14_FindExactlyParsable ==
    op.kind = "find" =>
        /\ result.ok
        /\ cache = pre.cache
        /\ IF op.name # ""
              /\ <<"packages", FirstChar[op.name], op.name \o ".toml">> \in DOMAIN cache
              /\ cache[<<"packages", FirstChar[op.name], op.name \o ".toml">>].kind = "file"
              /\ cache[<<"packages", FirstChar[op.name], op.name \o ".toml">>].data \notin NonUtf8
              /\ toml_from_str(
                    cache[<<"packages", FirstChar[op.name], op.name \o ".toml">>].data) # Nothing
           THEN result.val = toml_from_str(
                    cache[<<"packages", FirstChar[op.name], op.name \o ".toml">>].data)
           ELSE result.val = Nothing

\* C14 witness: find_package returned None for a name whose manifest file is there
\* and is not text.
C14_Witness ==
    /\ op.kind = "find" /\ op.name = "bin"
    /\ <<"packages", "b", "bin.toml">> \in DOMAIN cache
    /\ result.val = Nothing

\* The files exactly two levels below packages/ that parse as a PackageManifest, and
\* those of them named <stem>.toml.
ParsableAtDepthTwo(tree) ==
    {p \in DOMAIN tree :
        /\ Len(p) = 3 /\ p[1] = "packages"
        /\ tree[p].kind = "file"
        /\ tree[p].data \notin NonUtf8
        /\ toml_from_str(tree[p].data) # Nothing}

TomlAtDepthTwo(tree) ==
    {p \in ParsableAtDepthTwo(tree) : \E st \in Stems : st \o ".toml" = p[3]}

\* listing has one (stem, manifest) pair for each file of files, ascending by name.
ListsExactly(listing, files, tree) ==
    /\ Len(listing) = Cardinality(files)
    /\ \A p \in files : \E i \in 1..Len(listing) :
          listing[i] = <<file_stem(p[3]), toml_from_str(tree[p].data)[1]>>
    /\ \A i \in 1..Len(listing) : \E p \in files :
          listing[i] = <<file_stem(p[3]), toml_from_str(tree[p].data)[1]>>
    /\ \A i \in 1..(Len(listing) - 1) :
          StemRank(listing[i][1]) <= StemRank(listing[i + 1][1])

\* C15: list_available_packages returns one (name, manifest) pair for each file exactly
\* two levels below the packages root that is a .toml file and parses, named by its
\* file stem, sorted ascending by name; other files contribute nothing, and a cache
\* without packages/ gives the empty list.
C15_ListsTomlFiles ==
    op.kind = "list" => ListsExactly(result.val, TomlAtDepthTwo(cache), cache)

\* What the code does for C15: every file two levels down that parses is listed,
\* whatever its extension.
C15_ListsParsableFiles ==
    op.kind = "list" => ListsExactly(result.val, ParsableAtDepthTwo(cache), cache)

\* The text holds "must be set".
ContainsMustBeSet(text) ==
    \E before \in {"", "RUSH_REGISTRY_URL "},
       after \in {"", " to your local git repository path to alter the local registry."} :
        before \o "must be set" \o after = text

\* What is on disk at the registry source of the last write.
RegistryUnusable ==
    \/ op.target.registry_source # LocalRegistry
    \/ <<>> \notin DOMAIN pre.source
    \/ pre.source[<<>>].kind # "dir"

\* C16: write_package_manifest fails with the "must be set" guidance when the registry
\* source is empty, does not exist or is not a directory, and with "Package name empty"
\* when the name is empty; in both cases nothing under the source directory changes.
C16_WriteFailsFast ==
    op.kind = "write" =>
        /\ RegistryUnusable =>
              /\ ~result.ok
              /\ \E i \in 1..Len(result.msg) : ContainsMustBeSet(result.msg[i])
              /\ source = pre.source
        /\ (~RegistryUnusable /\ op.name = "") =>
              /\ ~result.ok
              /\ result.msg = <<"Package name empty">>
              /\ source = pre.source

\* C16 witness: a write to a registry path that is a regular file failed.
C16_Witness ==
    /\ op.kind = "write" /\ op.target.registry_source = LocalRegistry
    /\ <<>> \in DOMAIN pre.source /\ pre.source[<<>>].kind = "file"
    /\ ~result.ok

\* The manifest file of the last write, before and after it.
WrittenPath == <<"packages", FirstChar[op.name], op.name \o ".toml">>
ManifestBefore == toml_from_str(pre.source[WrittenPath].data)
ManifestAfter  == toml_from_str(source[WrittenPath].data)

\* C17: after a successful write over an existing manifest that parses, the stored
\* manifest has the given version, targets[T] = {url, bin_override or else name,
\* sha256}, and every other target and the description as before.
C17_UpsertKeepsOtherTargets ==
    (/\ op.kind = "write" /\ result.ok
     /\ WrittenPath \in DOMAIN pre.source
     /\ ManifestBefore # Nothing) =>
        /\ ManifestAfter # Nothing
        /\ ManifestAfter[1].version = op.version
        /\ op.target.target_arch \in DOMAIN ManifestAfter[1].targets
        /\ ManifestAfter[1].targets[op.target.target_arch]
              = [url |-> op.target.url,
                 bin |-> IF op.target.bin_name = Nothing THEN op.name
                         ELSE op.target.bin_name[1],
                 sha256 |-> op.target.sha256]
        /\ DOMAIN ManifestAfter[1].targets
              = DOMAIN ManifestBefore[1].targets \cup {op.target.target_arch}
        /\ \A k \in DOMAIN ManifestBefore[1].targets \ {op.target.target_arch} :
              ManifestAfter[1].targets[k] = ManifestBefore[1].targets[k]
        /\ ManifestAfter[1].description = ManifestBefore[1].description

\* C17 witness: a write for one target succeeded over a manifest that had a
\* description and another target; both targets are in the stored manifest.
C17_Witness ==
    /\ op.kind = "write" /\ result.ok
    /\ WrittenPath \in DOMAIN pre.source
    /\ ManifestBefore # Nothing
    /\ ManifestBefore[1].description # Nothing
    /\ op.target.target_arch \notin DOMAIN ManifestBefore[1].targets
    /\ DOMAIN ManifestAfter[1].targets = Triples

\* The weights as the specification lists them: a group of keywords, how each is
\* looked for, and what the group adds when one of them is there.
Group(how, words, weight) == [how |-> how, words |-> words, weight |-> weight]

GlobalGroups ==
    {Group("ends", {".tar.gz", ".tgz"}, 20), Group("ends", {".zip"}, 0 - 10),
     Group("ends", {".deb", ".rpm", ".msi"}, 0 - 100),
     Group("has", {"sha256", "sum", "sig"}, 0 - 100)}

TargetGroups(triple) ==
    CASE triple = "x86_64-linux" ->
            {Group("has", {"linux"}, 10), Group("has", {"x86_64", "amd64"}, 10),
             Group("has", {"musl"}, 5), Group("has", {"gnu"}, 3),
             Group("has", {"aarch64", "arm"}, 0 - 50),
             Group("has", {"darwin", "apple", "macos"}, 0 - 50),
             Group("has", {"windows", ".exe"}, 0 - 50)}
      [] triple = "aarch64-macos" ->
            {Group("has", {"apple", "darwin", "macos"}, 10),
             Group("has", {"aarch64", "arm64"}, 10),
             Group("has", {"linux"}, 0 - 50), Group("has", {"x86_64", "amd64"}, 0 - 50),
             Group("has", {"windows", ".exe"}, 0 - 50)}
      [] OTHER -> {}

GroupApplies(g, name) ==
    \E w \in g.words : IF g.how = "ends" THEN ends_with(name, w) ELSE contains(name, w)

RECURSIVE SumWeights(_, _)
SumWeights(groups, name) ==
    IF groups = {} THEN 0
    ELSE LET g == CHOOSE x \in groups : TRUE
         IN  (IF GroupApplies(g, name) THEN g.weight ELSE 0)
                 + SumWeights(groups \ {g}, name)

ListedScore(name, triple) ==
    SumWeights(GlobalGroups, name) + SumWeights(TargetGroups(triple), name)

StableRanking(ranked, listing, target, perm) ==
    /\ \A i, j \in 1..Len(listing) : i # j => perm[i] # perm[j]
    /\ \A i \in 1..Len(listing) :
          /\ ranked[i].asset = listing[perm[i]]
          /\ ranked[i].score = calculate_asset_score(listing[perm[i]].name, target)
    /\ \A i, j \in 1..Len(listing) :
          i < j => /\ ranked[i].score >= ranked[j].score
                   /\ ranked[i].score = ranked[j].score => perm[i] < perm[j]

\* C19: build_candidates_from_release gives one candidate group for x86_64-linux and
\* then one for aarch64-macos; the assets of each are a permutation of the release's
\* assets, each with its score for that target, in non-increasing score order, assets
\* of equal score in listing order.
C19_StableRanking ==
    vout # Pending =>
        /\ Len(vout.val.candidates) = 2
        /\ vout.val.candidates[1].target_slug = "x86_64-linux"
        /\ vout.val.candidates[2].target_slug = "aarch64-macos"
        /\ \A t \in 1..2 :
              /\ Len(vout.val.candidates[t].assets) = Len(vin.assets)
              /\ \E perm \in [1..Len(vin.assets) -> 1..Len(vin.assets)] :
                    StableRanking(vout.val.candidates[t].assets, vin.assets,
                                  vout.val.candidates[t].target_slug, perm)

\* C19 witness: a release listing a low-scored asset ahead of two different assets of
\* one higher score was ranked for x86_64-linux.
C19_Witness ==
    /\ vout # Pending
    /\ Len(vin.assets) = 3
    /\ vout.val.candidates[1].assets[1].asset = vin.assets[2]
    /\ vout.val.candidates[1].assets[2].asset = vin.assets[3]
    /\ vin.assets[2] # vin.assets[3]
    /\ vout.val.candidates[1].assets[1].score = vout.val.candidates[1].assets[2].score

\* The kinds of the events delivered so far, and the pipeline stage of each kind.
EventKinds == [i \in 1..Len(events) |-> events[i][1]]

StageOf(kind) ==
    CASE kind = "Downloading" -> 1
      [] kind = "Progress" -> 2
      [] kind = "VerifyingChecksum" -> 3
      [] kind = "Extracting" -> 4
      [] kind = "Success" -> 5
      [] OTHER -> 0

\* kinds begins Downloading, Progress..., VerifyingChecksum, Extracting, Success:
\* each event is of the stage after the one before it, or one more Progress.
InStageOrder(kinds) ==
    /\ kinds # <<>> => kinds[1] = "Downloading"
    /\ \A i \in 1..(Len(kinds) - 1) :
          \/ StageOf(kinds[i + 1]) = StageOf(kinds[i]) + 1
          \/ kinds[i] = "Progress" /\ kinds[i + 1] = "Progress"

\* C20: the events of an install that returns Ok are one Downloading, one or more
\* Progress, one VerifyingChecksum, one Extracting and one Success, in this order,
\* Success coming after State was persisted; the events of an install that returns
\* an error are a prefix of such a sequence without Success.
C20_EventsInStageOrder ==
    op.kind = "install" =>
        /\ InStageOrder(EventKinds)
        /\ InstallOk => (events # <<>> /\ Last(EventKinds) = "Success")
        /\ (InstallReturned /\ ~result.ok) => "Success" \notin Range(EventKinds)
        /\ (pc # "off" /\ "Success" \in Range(EventKinds)) =>
              /\ "state_file" \in Range(writes)
              /\ op.name \in DOMAIN state
              /\ LoadState(stateFile) = Ok(state)

\* C20 witness: an install over http returned Ok after several Progress events.
C20_Witness ==
    /\ InstallOk
    /\ Len(events) > 5
    /\ op.target.url.scheme = "http"

-----------------------------------------------------------------------------
(* Properties of the events of a sync and of a fetch *)

SyncReturnedOk == op.kind \in {"sync", "sync_archive"} /\ result.ok

\* The events are Fetching, then Progress events only, then Unpacking, and every
\* entry was unpacked after Unpacking was delivered.
FetchProgressUnpack ==
    /\ Len(events) >= 2
    /\ events[1][1] = "Fetching"
    /\ Last(events) = <<"Unpacking">>
    /\ \A i \in 2..(Len(events) - 1) : events[i][1] = "Progress"
    /\ \A k \in 1..Len(writes) :
          writes[k].what = "unpack" => writes[k].after = Len(events)

\* C21 as claimed: in every sync that returns Ok, from a local directory as well as
\* from an archive, the events delivered are Fetching once and first, then Progress
\* events, then Unpacking once and before any entry is written; Downloading is never
\* forwarded.
C21_EverySyncFetchProgressUnpack ==
    SyncReturnedOk => FetchProgressUnpack

\* C21, amended: a sync from an archive that returns Ok has delivered Fetching{source}
\* once and first, then the Progress events of the fetch, then Unpacking once and
\* before any entry was written, and never Downloading; a sync from a local
\* directory that returns Ok has delivered Fetching{source} and no other event.
C21_ArchiveSyncFetchProgressUnpack ==
    /\ (op.kind = "sync_archive" /\ result.ok) =>
          /\ FetchProgressUnpack
          /\ events[1] = <<"Fetching", op.target.url.path>>
          /\ SelectSeq(events, LAMBDA ev : ev[1] = "Progress")
                = SelectSeq(download_url(op.target.url, TRUE).events,
                            LAMBDA ev : ev[1] = "Progress")
             \/ SelectSeq(events, LAMBDA ev : ev[1] = "Progress")
                = SelectSeq(download_url(op.target.url, FALSE).events,
                            LAMBDA ev : ev[1] = "Progress")
    /\ (op.kind = "sync" /\ result.ok) => events = << <<"Fetching", "local">> >>

\* C21 witness: a streamed archive was synced, several Progress events were forwarded
\* and entries were unpacked.
C21_Witness ==
    /\ op.kind = "sync_archive" /\ result.ok
    /\ op.target.url.scheme = "http"
    /\ Len(events) > 4
    /\ \E k \in 1..Len(writes) : writes[k].what = "unpack"

\* The events of the fetch of the running or last install, and the Progress events
\* among them.
FetchEvents == SelectSeq(events, LAMBDA ev : ev[1] \in {"Downloading", "Progress"})
ProgressEvents == SelectSeq(events, LAMBDA ev : ev[1] = "Progress")

Fetched == op.kind = "install" /\ pc \notin {"download", "off"}

\* One Downloading{total} comes before any Progress; a fetch that failed has
\* delivered nothing and ended the install at once.
OneDownloadingFirst ==
    /\ Count([i \in 1..Len(events) |-> events[i][1]], "Downloading") <= 1
    /\ FetchEvents # <<>> => FetchEvents[1][1] = "Downloading"
    /\ (Fetched /\ ~Remote(op.target.url).found) =>
          /\ events = <<>>
          /\ pc = "idle" /\ ~result.ok
          /\ writes = <<>>

\* A local file gives the pair Progress(0, total), Progress(total, total).
LocalPair ==
    (Fetched /\ Remote(op.target.url).found /\ op.target.url.scheme = "file://") =>
        ProgressEvents = << <<"Progress", 0, Len(cur.content)>>,
                            <<"Progress", Len(cur.content), Len(cur.content)>> >>

\* C22: a fetch delivers one Downloading{total} before any Progress; for a local file
\* then exactly Progress(0,total) and Progress(total,total); for a streamed download
\* exactly one Progress per chunk read, so each Progress carries the bytes of a chunk
\* (at least one byte) and together they carry the body; a fetch of a missing file
\* or of a non-2xx response returns an error, is made once and delivers no Progress.
C22_OneProgressPerChunk ==
    /\ op.kind = "install" => (OneDownloadingFirst /\ LocalPair)
    /\ (Fetched /\ Remote(op.target.url).found /\ op.target.url.scheme = "http") =>
          /\ \A i \in 1..Len(ProgressEvents) : ProgressEvents[i][2] >= 1
          /\ SumSeq([i \in 1..Len(ProgressEvents) |-> ProgressEvents[i][2]])
                = Len(cur.content)

\* What the code does for C22: a streamed download delivers Progress(0, total) before
\* it reads, and then one Progress per chunk.
C22_ProgressPerChunkAfterFirst ==
    /\ op.kind = "install" => (OneDownloadingFirst /\ LocalPair)
    /\ (Fetched /\ Remote(op.target.url).found /\ op.target.url.scheme = "http") =>
          /\ ProgressEvents # <<>>
          /\ ProgressEvents[1][2] = 0
          /\ \A i \in 2..Len(ProgressEvents) : ProgressEvents[i][2] \in 1..BufLen
          /\ SumSeq([i \in 1..Len(ProgressEvents) |-> ProgressEvents[i][2]])
                = Len(cur.content)


-----------------------------------------------------------------------------
(* C23: an install command that cannot be carried out *)

LastLine(out) == out[Len(out)]

\* The install command has ended and its installation could not be carried out: the
\* manifest has no target for this machine, the fetch failed or the checksum did not
\* match.
InstallNotCarriedOut ==
    /\ proc.cmd = "install"
    /\ proc.exit \in {"success", "failure"}
    /\ proc.out # <<>>
    /\ \/ LastLine(proc.out) = "Error: No compatible binary"
       \/ /\ proc.fetched # <<>>
          /\ ~result.ok
          /\ result.msg[1] \in {"No such file or directory", "HTTP status client error",
                                SecurityMsg}

\* C23: an install command whose installation cannot be carried out (the fetch
\* fails, the checksum does not match, or the manifest has no target for the current
\* machine) prints the error, ends with a failure exit status and leaves the bin
\* directory as it was.
C23_FailedInstallExitsWithFailure ==
    InstallNotCarriedOut =>
        /\ LastLine(proc.out) \in {"Error: No compatible binary", "Error: e"}
        /\ proc.exit = "failure"
        /\ binDir = pre.binDir

\* What the command does in these cases apart from its exit status.
C23_FailedInstallPrintsAndKeepsBin ==
    InstallNotCarriedOut =>
        /\ LastLine(proc.out) \in {"Error: No compatible binary", "Error: e"}
        /\ binDir = pre.binDir
        /\ LoadState(stateFile) = LoadState(pre.stateFile)


-----------------------------------------------------------------------------
(* C24: the upgrade command *)

UpgradeSucceeded == proc.cmd = "upgrade" /\ proc.exit = "success"

\* The cached manifest of name, when it exists and has a target for this machine.
Upgradable(name) ==
    LET found == find_package(cache, name)
    IN  IF found = Nothing THEN FALSE ELSE CurrentTarget \in DOMAIN found[1].targets

\* name was installed at the version of its cached manifest when the command began.
UpToDate(name) ==
    /\ Upgradable(name)
    /\ find_package(cache, name)[1].version = pre.state[name].version

\* name is installed at the version of its cached manifest, and its binary is the
\* one of the archive the manifest names.
AtManifest(name) ==
    LET manifest == find_package(cache, name)[1]
        target == manifest.targets[CurrentTarget]
        now == LoadState(stateFile).val
    IN  /\ name \in DOMAIN now
        /\ now[name].version = manifest.version
        /\ now[name].binaries = <<target.bin>>
        /\ binDir[target.bin] = InstalledFile(Remote(target.url).body, target.bin)

\* name has the State entry it had when the command began and was not fetched.
EntryKept(name) ==
    LET now == LoadState(stateFile).val
    IN  /\ name \in DOMAIN now
        /\ now[name] = pre.state[name]
        /\ \A i \in 1..Len(proc.fetched) : proc.fetched[i] # name

BinariesKept(name) ==
    \A i \in 1..Len(pre.state[name].binaries) :
        binDir[pre.state[name].binaries[i]] = pre.binDir[pre.state[name].binaries[i]]

\* A package fetched by the command registers one of the binaries of name.
SharesWithFetched(name) ==
    \E i \in 1..Len(proc.fetched), j \in 1..Len(pre.state[name].binaries) :
        LET now == LoadState(stateFile).val
        IN  /\ proc.fetched[i] # name
            /\ proc.fetched[i] \in DOMAIN now
            /\ pre.state[name].binaries[j] \in Range(now[proc.fetched[i]].binaries)

\* C24: after an upgrade command that completes successfully, every installed
\* package whose cached manifest exists, has a target for the current machine and
\* has another version is at the manifest's version with the manifest's binary, and
\* every other installed package keeps its State entry and its binary and was not
\* fetched.
C24_UpgradeBringsStateToManifests ==
    UpgradeSucceeded =>
        \A name \in DOMAIN pre.state :
            IF Upgradable(name) /\ ~UpToDate(name)
            THEN AtManifest(name)
            ELSE EntryKept(name) /\ BinariesKept(name)

\* The same, with the binary of a package that was not fetched required to be kept
\* only when no fetched package registers a binary of that name.
C24_UpgradeExceptSharedBinaries ==
    UpgradeSucceeded =>
        \A name \in DOMAIN pre.state :
            IF Upgradable(name) /\ ~UpToDate(name)
            THEN AtManifest(name)
            ELSE /\ EntryKept(name)
                 /\ SharesWithFetched(name) \/ BinariesKept(name)

\* The flow of test_upgrade_flow: the package is at the second version after the
\* upgrade.
C24_UpgradedToSecondVersion ==
    /\ UpgradeSucceeded
    /\ "tool" \in DOMAIN pre.state
    /\ pre.state["tool"].version = "1.0.0"
    /\ LoadState(stateFile).val["tool"].version = "2.0.0"


-----------------------------------------------------------------------------
(* C25: the life of one root under install and uninstall calls that return Ok *)

\* Bound: the calls made on the root.
MaxCalls == 3

\* Targets whose install can succeed; the first two install a binary of the same name.
LifeTargets ==
    { Target(FileUrl("good"), "a", Digest("good")),
      Target(HttpUrl("nested"), "a", Digest("nested")),
      Target(FileUrl("onlyb"), "b", Digest("onlyb")) }

\* No call was made yet, or the last one returned Ok.
PreviousOk == op.kind = "none" \/ result.ok

LifeInstall ==
    /\ pc = "idle"
    /\ PreviousOk
    /\ nOps < MaxCalls
    /\ CallInstall(Names, {"1.0.0"}, LifeTargets)

LifeUninstall ==
    /\ pc = "idle"
    /\ PreviousOk
    /\ nOps < MaxCalls
    /\ CallUninstall(Names)

\* An engine on a root with an empty State and an empty bin directory.
InitLife ==
    /\ EngineInitState
    /\ stateFile = NoFile
    /\ cache = 0
    /\ source = 0
    /\ vin = 0
    /\ vout = 0

NextLife ==
    \/ EngineInit
    \/ LifeInstall \/ Download \/ Verify \/ BeginExtract \/ Scan
    \/ TmpCreate \/ CopyByte \/ Chmod \/ Persist \/ Record \/ Succeed
    \/ LifeUninstall

SpecLife == InitLife /\ [][NextLife]_vars

\* C25: after install and uninstall calls that each returned Ok on a root that began
\* with an empty State and an empty bin directory, every binary name registered in
\* State exists as a file in the bin directory.
C25_RegisteredBinariesExist ==
    (pc = "idle" /\ PreviousOk) =>
        \A name \in DOMAIN state :
            \A i \in 1..Len(state[name].binaries) :
                binDir[state[name].binaries[i]] # NoFile


-----------------------------------------------------------------------------
(* C26: the State in memory and the State in the state file *)

\* An install or uninstall call has returned to its caller.
CallReturned == pc = "idle" /\ op.kind \in {"install", "uninstall"}

\* C26: whenever an install or uninstall call returns, with Ok or with an error, the
\* State in memory equals the State stored in the state file.
C26_StateEqualsStateFile ==
    CallReturned => LoadState(stateFile) = Ok(state)

\* The same for the calls that return Ok, and for those that fail before the State
\* in memory is changed.
C26_StateEqualsStateFileUnlessSaveFailed ==
    (CallReturned /\ (result.ok \/ result.msg[1] # "failed to write state file")) =>
        \/ LoadState(stateFile) = Ok(state)
        \/ state = pre.state /\ stateFile = pre.stateFile


-----------------------------------------------------------------------------
(* C27: the cache after a sync that returned an error *)

SyncFailed == op.kind \in {"sync", "sync_archive"} /\ ~result.ok

\* The sync that just returned wrote the file at path p of the cache: it unpacked an
\* archive entry there, or copied the file the source directory has there.
WrittenBySync(p) ==
    IF op.kind = "sync_archive"
    THEN \E k \in 1..Len(writes) :
            writes[k].what = "unpack" /\ writes[k].at = RegistryDir \o p
    ELSE /\ p \in DOMAIN source
         /\ source[p].kind \in {"file", "linkfile"}
         /\ source[p].data = cache[p].data

\* The sync failed before it wrote anything: the local source path is missing or the
\* fetch failed.
FailedBeforeWriting ==
    result.msg[1] \in {"Local registry path not found: ", "No such file or directory",
                       "HTTP status client error"}

\* C27 as stated: when sync returns an error, find returns not-found for every
\* package that was found before the call.
C27_FailedSyncForgetsEveryPackage ==
    SyncFailed =>
        \A name \in QueryNames :
            find_package(pre.cache, name) # Nothing => find_package(cache, name) = Nothing

\* C27: the cache is wiped before the source is validated or fetched. When sync
\* returns an error no manifest of the previous cache is preserved: a package is
\* found afterwards only if this sync wrote its manifest before it failed, and none
\* is found when the local source path is missing or the fetch failed.
C27_FailedSyncKeepsOnlyWhatItWrote ==
    SyncFailed =>
        /\ \A name \in QueryNames \ {""} :
              find_package(cache, name) # Nothing => WrittenBySync(ManifestPath(name))
        /\ FailedBeforeWriting =>
              \A name \in QueryNames : find_package(cache, name) = Nothing

\* A failed sync after which a package that was found before is not found.
C27_Witness ==
    /\ SyncFailed
    /\ \E name \in QueryNames :
          /\ find_package(pre.cache, name) # Nothing
          /\ find_package(cache, name) = Nothing
          /\ ~WrittenBySync(ManifestPath(name))


-----------------------------------------------------------------------------
(* C28: where a sync from an archive writes *)

\* Syncs from any served archive, and the queries on the cache they leave.
NextArchive ==
    \/ UpdateRegistryAnyArchive
    \/ FindPackage
    \/ ListAvailablePackages

SpecArchive == InitSync /\ [][NextArchive]_vars

\* C28: for every archive, one whose entry paths have ".." components after
\* "packages/" included, a sync from an archive source writes only inside the cache
\* directory: the state file and the bin directory are as they were.
C28_ArchiveSyncWritesInsideCache ==
    op.kind = "sync_archive" =>
        /\ \A k \in 1..Len(writes) : IsPrefix(RegistryDir, writes[k].at)
        /\ stateFile = pre.stateFile
        /\ binDir = pre.binDir

\* What holds for every archive: each entry is written at the place its path from
\* "packages/" on resolves to from the cache directory.
C28_ArchiveSyncWritesAtResolvedPath ==
    op.kind = "sync_archive" =>
        \A k \in 1..Len(writes) :
            writes[k].what = "unpack" =>
                \E e \in Range(SyncedArchive) :
                    /\ FindPackages(e) # Nothing
                    /\ writes[k].at = Destination(RelativeDest(e, FindPackages(e)[1]))


-----------------------------------------------------------------------------
(* C29: list_all and find *)

\* C29: in every cache a sync leaves, each (name, manifest) that list_all returns is
\* found by find: find(name) returns that manifest.
C29_ListedIsFound ==
    \A p \in ListedEntries(cache) :
        ListedPair(cache, p)[1] \in QueryNames =>
            find_package(cache, ListedPair(cache, p)[1]) = Some(ListedPair(cache, p)[2])

\* What holds: a listed manifest is found under its name when its file is in the
\* directory named by the first character of the name.
C29_ListedInOwnShardIsFound ==
    \A p \in ListedEntries(cache) :
        (ListedPair(cache, p)[1] \in QueryNames /\ p = ManifestPath(ListedPair(cache, p)[1])) =>
            find_package(cache, ListedPair(cache, p)[1]) = Some(ListedPair(cache, p)[2])


-----------------------------------------------------------------------------
(* C30: the kind of archive entry an install takes as the binary *)

\* The indices of the regular-file entries whose final path component is bin.
RegularNamedEntries(content, bin) ==
    {i \in NamedEntries(content, bin) : ArchiveEntries(content, 1)[i].type = 0}

\* The executable file made of the bytes of the first of them.
RegularInstalledFile(content, bin) ==
    LET es == ArchiveEntries(content, 1)
        e == es[CHOOSE i \in RegularNamedEntries(content, bin) :
                   \A j \in RegularNamedEntries(content, bin) : i <= j]
    IN  File([i \in 1..e.size |-> content[e.data + i - 1]], TRUE)

\* C30: install selects only a regular-file entry as the binary. After an install
\* that returned Ok from an archive with a regular file named as the binary, also
\* when a directory entry of that name comes first, bin/<name> holds the bytes of
\* the regular file.
C30_InstallsRegularFileEntry ==
    (InstallOk /\ RegularNamedEntries(Remote(op.target.url).body, op.target.bin) # {}) =>
        binDir[op.target.bin] =
            RegularInstalledFile(Remote(op.target.url).body, op.target.bin)

=============================================================================
